---- MODULE Spec2Model ----
(***************************************************************************)
(* Generation-request orchestration of the emailgeneration service:        *)
(* POST /generate (template mode, src/routes/generate.ts), the legacy      *)
(* single-email POST /generate, POST /generate/content and                 *)
(* POST /generate/calendar (src/routes/content.ts), against the store      *)
(* (email_generations, content_generations, prompts), the key store, the   *)
(* LLM provider and the run/cost ledger (runs-service).                    *)
(*                                                                         *)
(* Every await of a handler is one step of the request that executes it;   *)
(* requests interleave freely between their steps.  Every awaited call may *)
(* resolve or reject.                                                      *)
(***************************************************************************)
EXTENDS Integers, Sequences, FiniteSets, TLC

\* ------------------------------------------------------------------ bounds
\* the largest token count the provider reports
MaxTokens == 1

\* ------------------------------------------------------------ input domains
Req == {"r1", "r2"}
Orgs == {"org-A", "org-B"}
Endpoints == {"generate", "legacy", "content", "calendar"}
KeyModes == {"byok", "app"}

\* organizations a request may come from; requests are interchangeable, so
\* the first one is taken to come from org-A
OrgsOf(r) == IF r = "r1" THEN {"org-A"} ELSE Orgs

\* usage counts of a reply: none, or the largest (the handlers only tell
\* zero from non-zero and pass the count on)
TokenCounts == {0, MaxTokens}

\* replies of the provider: every combination of token counts under one
\* subject, and one reply with another subject
Replies ==
  {[subject |-> "Subject A", tokensInput |-> ti, tokensOutput |-> to] :
     ti \in TokenCounts, to \in TokenCounts}
  \cup {[subject |-> "Subject B", tokensInput |-> MaxTokens, tokensOutput |-> MaxTokens]}

\* JavaScript's undefined and null
Undefined == "<undefined>"
Null == "<null>"

\* idempotencyKey: z.string().optional() admits the empty string
IdempotencyKeys == {Undefined, "", "idem-key-1"}

\* the one (appId, type) pair requests ask for
PromptKey == <<"app-1", "email">>

VARIABLES
  pc,                  \* position of each request in its handler
  req,                 \* parsed request of each request
  result,              \* value returned by the LLM invocation
  generation,          \* id of the row the request inserted (0: none)
  genRun,              \* run id returned by createRun (0: none)
  emailGenerations,    \* table email_generations, row i has id i
  contentGenerations,  \* table content_generations, row i has id i
  prompts,             \* (appId, type) pairs having a stored prompt
  runs,                \* runs of the ledger, run i has id i
  trace,               \* calls made by each request, in order
  log,                 \* console.error lines of each request
  resp,                \* HTTP response of each request
  startedAfter         \* requests already answered when this one arrived

vars == <<pc, req, result, generation, genRun, emailGenerations,
          contentGenerations, prompts, runs, trace, log, resp, startedAfter>>

\* The ledger client (src/lib/runs-client.ts) and the pure functions of the
\* LLM client (src/lib/anthropic-client.ts) are exercised on their own, each
\* under its own specification; the request handlers leave their state alone.
VARIABLES
  call,                \* ledger call in progress: operation, method, path
  rpc,                 \* position of the ledger call: fetch, sleep, done
  fetched,             \* status of every HTTP attempt made, in order
  warned,              \* console.warn lines of the ledger call
  slept,               \* delays waited between attempts, in order
  outcome,             \* how the ledger call ended, and with what
  fn,                  \* the function last applied
  input,               \* the arguments drawn for the function
  output               \* the value the function returned

retryVars == <<call, rpc, fetched, warned, slept, outcome>>
fnVars == <<fn, input, output>>

\* PUT /prompts (the prompts router) is exercised under its own specification
\* as well, with the rows of the prompts table and not only their keys.
VARIABLES
  put,                 \* each PUT /prompts request: position, body, response
  promptsTable,        \* table prompts, row i has id i
  upserts              \* requests whose insert or update was applied, in order

upsertVars == <<put, promptsTable, upserts>>
libVars == <<retryVars, fnVars, upsertVars>>

\* ---------------------------------------------------------------- helpers
NoReq == [endpoint |-> "none", orgId |-> "none", idempotencyKey |-> Undefined,
          keyMode |-> "none"]
NoResult == [subject |-> "", sequence |-> <<>>, tokensInput |-> 0,
             tokensOutput |-> 0, costUsd |-> 0, model |-> "none"]
NoResp == [status |-> 0, id |-> 0, subject |-> "", sequence |-> <<>>,
           tokensInput |-> 0, tokensOutput |-> 0, error |-> ""]

\* one awaited call of a handler: what was called, on which run, with what,
\* and whether it resolved
Call(op, ok, runId, arg) == [op |-> op, ok |-> ok, runId |-> runId, arg |-> arg]

\* the test is idempotencyKey !== null, which undefined passes
Truthy_NotNull(v) == v # Null

\* JavaScript truthiness of an optional string
Truthy(v) == v # Undefined /\ v # Null /\ v # ""

\* null in a jsonb column read as a sequence, and in an integer column
NullSeq == <<Null>>
NullInt == -1

\* null in generation_run_id (run ids count from 1)
NoRun == 0

\* a ?? b, for a string, a sequence and an integer
Coalesce(a, b) == IF a = Undefined \/ a = Null THEN b ELSE a
CoalesceSeq(a, b) == IF a = NullSeq THEN b ELSE a
CoalesceInt(a, b) == IF a = NullInt THEN b ELSE a

\* the model the client module passes to anthropic.messages.create
GenerateLlmModel == "claude-sonnet-4-6"
ContentLlmModel == "claude-sonnet-4-6"

\* the model written on the stored row
GenerateStoredModel == "claude-sonnet-4-6"
LegacyStoredModel == "claude-opus-4-5"
ContentStoredModel == "claude-opus-4-6"

\* cost names of the two directions
GenerateCostNames == <<"anthropic-sonnet-4.6-tokens-input", "anthropic-sonnet-4.6-tokens-output">>
LegacyCostNames == <<"anthropic-opus-4.5-tokens-input", "anthropic-opus-4.5-tokens-output">>
ContentCostNames == <<"anthropic-opus-4.6-tokens-input", "anthropic-opus-4.6-tokens-output">>

\* costUsd as computed by generateFromTemplate, in millionths of a dollar
CostUsd(tokensInput, tokensOutput) == tokensInput * 3 + tokensOutput * 15

\* the offsets count days from the first step
SequenceOffsets_Absolute == <<0, 3, 10>>

\* parseSequenceJson: body, followup1, followup2 become steps 1..3
SequenceOffsets == <<0, 3, 7>>
ParseSequenceJson(json) ==
  [i \in 1..3 |->
     [step |-> i,
      bodyText |-> (<<json.body, json.followup1, json.followup2>>)[i],
      daysSinceLastStep |-> SequenceOffsets[i]]]

\* the quantity reported is the locally computed costUsd
CostItems_CostUsd(names, tokensInput, tokensOutput) ==
  (IF tokensInput # 0
     THEN <<[costName |-> names[1], quantity |-> CostUsd(tokensInput, 0)]>> ELSE <<>>)
  \o
  (IF tokensOutput # 0
     THEN <<[costName |-> names[2], quantity |-> CostUsd(0, tokensOutput)]>> ELSE <<>>)

\* const costItems = []; if (tokensInput) push(input); if (tokensOutput) push(output)
CostItems(names, tokensInput, tokensOutput) ==
  (IF tokensInput # 0
     THEN <<[costName |-> names[1], quantity |-> tokensInput]>> ELSE <<>>)
  \o
  (IF tokensOutput # 0
     THEN <<[costName |-> names[2], quantity |-> tokensOutput]>> ELSE <<>>)

BestEffort(e) == e \in {"generate", "legacy"}
Strict(e) == e \in {"content", "calendar"}

CostNamesOf(e) ==
  IF e = "generate" THEN GenerateCostNames
  ELSE IF e = "legacy" THEN LegacyCostNames ELSE ContentCostNames

StoredModelOf(e) ==
  IF e = "generate" THEN GenerateStoredModel
  ELSE IF e = "legacy" THEN LegacyStoredModel ELSE ContentStoredModel

\* res.status(s).json({ error }) / the catch blocks' 500
Fail(r, status, message) ==
  /\ resp' = [resp EXCEPT ![r] = [NoResp EXCEPT !.status = status, !.error = message]]
  /\ pc' = [pc EXCEPT ![r] = "done"]

\* the body carries the id of the run instead of the record's
SuccessBody_RunId(r) ==
  [NoResp EXCEPT !.status = 200, !.id = genRun[r],
                 !.subject = result[r].subject, !.sequence = result[r].sequence,
                 !.tokensInput = result[r].tokensInput,
                 !.tokensOutput = result[r].tokensOutput]

\* res.json({ id: generation.id, subject, sequence | body, tokensInput, tokensOutput })
SuccessBody(r) ==
  [NoResp EXCEPT !.status = 200, !.id = generation[r],
                 !.subject = result[r].subject, !.sequence = result[r].sequence,
                 !.tokensInput = result[r].tokensInput,
                 !.tokensOutput = result[r].tokensOutput]

\* ------------------------------------------- template substitution engine
\* A string is the sequence of its characters; a run of characters none of
\* which is a brace, a dollar sign, an ampersand, a quote or a backslash may
\* be written as one element.
\* A JSON value: its type, its text (string: the characters; number, boolean,
\* null: the literal), its items (array: the elements; object: the values)
\* and its keys (object).
JString(chars) == [type |-> "string", text |-> chars, items |-> <<>>, keys |-> <<>>]
JLiteral(type, literal) == [type |-> type, text |-> <<literal>>, items |-> <<>>, keys |-> <<>>]
JArray(items) == [type |-> "array", text |-> <<>>, items |-> items, keys |-> <<>>]
JObject(keys, items) == [type |-> "object", text |-> <<>>, items |-> items, keys |-> keys]

\* the largest number of entries of a variables map
MaxVars == 2

\* variable names
Keys == {<<"a">>, <<"b">>}

\* values of variables, as the JSON request body can carry them
Values ==
  {JString(<<"Alice">>),
   JString(<<"$", "$", "5">>),
   JString(<<"$", "&">>),
   JString(<<"{", "{", "b", "}", "}">>),
   JLiteral("number", "42"),
   JLiteral("boolean", "true"),
   JLiteral("null", "null"),
   JArray(<<>>),
   JArray(<<JString(<<"x">>), JString(<<"y">>)>>),
   JArray(<<JLiteral("number", "1"), JString(<<"two">>), JLiteral("boolean", "true")>>),
   JObject(<<<<"k">>>>, <<JString(<<"v">>)>>)}

\* prompt templates
Templates ==
  {<<"Hello ", "{", "{", "a", "}", "}">>,
   <<"{", "{", "a", "}", "}", " is great. Everyone loves ", "{", "{", "a", "}", "}", ".">>,
   <<"{", "{", "a", "}", "}", ", your role is ", "{", "{", "b", "}", "}">>,
   <<"{", "{", "{", "a", "}", "}", "}">>,
   <<"{", "{", "b", "}", "}", "{", "{", "a", "}">>,
   <<"No variables here">>}

\* Object.entries(variables): the entries of a map, keys distinct, in order
KeysOf(variables) == {variables[i].key : i \in 1..Len(variables)}
RECURSIVE MapsOfLen(_)
MapsOfLen(n) ==
  IF n = 0 THEN {<<>>}
  ELSE UNION {{Append(variables, [key |-> k, value |-> v]) :
                 k \in Keys \ KeysOf(variables), v \in Values} :
              variables \in MapsOfLen(n - 1)}
VariableMaps == UNION {MapsOfLen(n) : n \in 0..MaxVars}

\* parsed replies parseSequenceJson is applied to
SequenceJsons ==
  [subject : {"Subject A", "Subject B"}, body : {"body", "Hey Sarah"},
   followup1 : {"followup1", "circling back"},
   followup2 : {"followup2", "Different angle"}]

\* array.join(separator) of strings
RECURSIVE Join(_, _)
Join(strings, separator) ==
  IF Len(strings) = 0 THEN <<>>
  ELSE IF Len(strings) = 1 THEN strings[1]
  ELSE strings[1] \o separator \o Join(Tail(strings), separator)

\* JSON.stringify(value)
RECURSIVE JsonStringify(_)
JsonStringify(value) ==
  IF value.type = "string" THEN <<"\"">> \o value.text \o <<"\"">>
  ELSE IF value.type = "array"
    THEN <<"[">>
         \o Join([i \in 1..Len(value.items) |-> JsonStringify(value.items[i])], <<",">>)
         \o <<"]">>
  ELSE IF value.type = "object"
    THEN <<"{">>
         \o Join([i \in 1..Len(value.items) |->
                    <<"\"">> \o value.keys[i] \o <<"\"", ":">>
                    \o JsonStringify(value.items[i])], <<",">>)
         \o <<"}">>
  ELSE value.text

\* coerceToString(value)
CoerceToString(value) ==
  IF value.type = "string" THEN value.text
  ELSE IF value.type = "array"
          /\ \A i \in 1..Len(value.items) : value.items[i].type = "string"
    THEN Join([i \in 1..Len(value.items) |-> value.items[i].text], <<",", " ">>)
  ELSE JsonStringify(value)

\* `{{${key}}}`
Placeholder(key) == <<"{", "{">> \o key \o <<"}", "}">>

\* pattern occurs in string at position i
MatchesAt(string, pattern, i) ==
  /\ i + Len(pattern) - 1 <= Len(string)
  /\ \A j \in 1..Len(pattern) : string[i + j - 1] = pattern[j]

\* what replaceAll inserts for a match, from position i of the replacement
\* string on: $$ stands for a dollar sign and $& for the matched text
RECURSIVE GetSubstitution(_, _, _)
GetSubstitution(matched, replacement, i) ==
  IF i > Len(replacement) THEN <<>>
  ELSE IF replacement[i] = "$" /\ i < Len(replacement) /\ replacement[i + 1] = "$"
    THEN <<"$">> \o GetSubstitution(matched, replacement, i + 2)
  ELSE IF replacement[i] = "$" /\ i < Len(replacement) /\ replacement[i + 1] = "&"
    THEN matched \o GetSubstitution(matched, replacement, i + 2)
  ELSE <<replacement[i]>> \o GetSubstitution(matched, replacement, i + 1)

\* string.replaceAll(pattern, replacement), from position i on
RECURSIVE ReplaceAll(_, _, _, _)
ReplaceAll(string, pattern, replacement, i) ==
  IF i > Len(string) THEN <<>>
  ELSE IF MatchesAt(string, pattern, i)
    THEN GetSubstitution(pattern, replacement, 1)
         \o ReplaceAll(string, pattern, replacement, i + Len(pattern))
  ELSE <<string[i]>> \o ReplaceAll(string, pattern, replacement, i + 1)

\* the loop of substituteVariables over the first n entries
RECURSIVE SubstituteEntries(_, _, _)
SubstituteEntries(template, variables, n) ==
  IF n = 0 THEN template
  ELSE ReplaceAll(SubstituteEntries(template, variables, n - 1),
                  Placeholder(variables[n].key),
                  CoerceToString(variables[n].value), 1)

\* substituteVariables(template, variables)
SubstituteVariables(template, variables) ==
  SubstituteEntries(template, variables, Len(variables))

\* --------------------------------------------------- ledger client: values
\* the retry limit is one too many
MaxRetries_Four == 3 + 1

\* retries after the first attempt
MaxRetries == 3

\* statuses the ledger answers with
Statuses == {200, 201, 400, 404, 500, 502, 503, 504}

\* response.ok
StatusOk(status) == status >= 200 /\ status < 300

\* every failure status is retried
Retryable_AnyFailure(status) == status >= 400

\* 502, 503, 504 and any other 5xx
Retryable(status) == status >= 500

\* the four operations of the ledger client
LedgerCalls ==
  {[op |-> "createRun", method |-> "POST", path |-> "/v1/runs"],
   [op |-> "updateRun", method |-> "PATCH", path |-> "/v1/runs/run-1"],
   [op |-> "addCosts", method |-> "POST", path |-> "/v1/runs/run-1/costs"],
   [op |-> "getRun", method |-> "GET", path |-> "/v1/runs/run-1"]}

NoCall == [op |-> "none", method |-> "none", path |-> "none"]
NoOutcome == [state |-> "pending", body |-> 0, error |-> <<>>]

\* the error raised: "runs-service <method> <path> failed: <status>"
LedgerError(c, status) == <<"runs-service", c.method, c.path, "failed", status>>

\* the warning counts attempts, not retries
RetryWarning_Attempt(n) == <<"Retry", n + 1, MaxRetries>>

\* the warning logged before retry n: "Retry <n>/<limit>"
RetryWarning(n) == <<"Retry", n, MaxRetries>>

\* the delay before retry n, in units of the base delay: doubles every time
BackoffDelay(n) == 2 ^ (n - 1)

RetryIdle ==
  /\ call = NoCall
  /\ rpc = "done"
  /\ fetched = <<>>
  /\ warned = <<>>
  /\ slept = <<>>
  /\ outcome = NoOutcome

FnIdle ==
  /\ fn = "none"
  /\ input = <<>>
  /\ output = <<>>

\* ------------------------------------------------------ PUT /prompts: values
PutReq == {"p1", "p2", "p3"}

\* (appId, type) pairs and template texts the requests carry
PromptKeys == {<<"app-1", "email">>, <<"app-1", "calendar">>, <<"app-2", "email">>}
PromptTexts == {"Hello {{a}}", "Hi {{a}}"}

NoPut == [pc |-> "idle", appId |-> "none", type |-> "none", prompt |-> "",
          existing |-> 0, status |-> 0, id |-> 0, updatedAt |-> 0, error |-> ""]

PutIdle ==
  /\ put = [p \in PutReq |-> NoPut]
  /\ promptsTable = <<>>
  /\ upserts = <<>>

\* no request has arrived yet
NoRequests ==
  /\ pc = [r \in Req |-> "idle"]
  /\ req = [r \in Req |-> NoReq]
  /\ result = [r \in Req |-> NoResult]
  /\ generation = [r \in Req |-> 0]
  /\ genRun = [r \in Req |-> 0]
  /\ emailGenerations = <<>>
  /\ contentGenerations = <<>>
  /\ prompts = {}
  /\ runs = <<>>
  /\ trace = [r \in Req |-> <<>>]
  /\ log = [r \in Req |-> <<>>]
  /\ resp = [r \in Req |-> NoResp]
  /\ startedAfter = [r \in Req |-> {}]

Init ==
  /\ NoRequests
  /\ RetryIdle
  /\ FnIdle
  /\ PutIdle

\* ---------------------------------------------------------------- actions
\* a request arrives; safeParse rejects a malformed body with 400
Receive(r) ==
  /\ pc[r] = "idle"
  /\ startedAfter' = [startedAfter EXCEPT ![r] = {s \in Req : pc[s] = "done"}]
  /\ \E e \in Endpoints, o \in OrgsOf(r), valid \in BOOLEAN :
       IF valid
         THEN \E k \in (IF e = "generate" THEN IdempotencyKeys ELSE {Undefined}),
                 m \in (IF e = "legacy" THEN {"byok"} ELSE KeyModes) :
                /\ req' = [req EXCEPT ![r] = [endpoint |-> e, orgId |-> o,
                                               idempotencyKey |-> k, keyMode |-> m]]
                /\ pc' = [pc EXCEPT ![r] = IF e = "generate" THEN "idempotency" ELSE "key"]
                /\ UNCHANGED resp
         ELSE /\ req' = [req EXCEPT ![r] = [NoReq EXCEPT !.endpoint = e, !.orgId = o]]
              /\ Fail(r, 400, "validation")
  /\ UNCHANGED <<result, generation, genRun, emailGenerations, contentGenerations,
                 prompts, runs, trace, log>>
  /\ UNCHANGED libVars

\* the catch answers with a fixed text instead of the error's message
Throw_FixedMessage(r, message) ==
  /\ Fail(r, 500, "Internal server error")
  /\ log' = [log EXCEPT ![r] = Append(@, "Generate error")]

\* the catch logs the error and sends nothing
Throw_NoResponse(r, message) ==
  /\ log' = [log EXCEPT ![r] = Append(@, "Generate error")]
  /\ pc' = [pc EXCEPT ![r] = "done"]
  /\ UNCHANGED resp

\* the outer catch: console.error(...); res.status(500).json({ error: message })
Throw(r, message) ==
  /\ Fail(r, 500, message)
  /\ log' = [log EXCEPT ![r] = Append(@, "Generate error")]

\* the lookup compares the key with the wrong column
IdempotencyMatches_WrongColumn(orgId, key) ==
  {i \in 1..Len(emailGenerations) :
     /\ emailGenerations[i].orgId = orgId
     /\ emailGenerations[i].subject = key}

\* the lookup matches the key alone, in any organization
IdempotencyMatches_AnyOrg(orgId, key) ==
  {i \in 1..Len(emailGenerations) : emailGenerations[i].idempotencyKey = key}

\* a stored row counts as existing only once a run is linked to it
IdempotencyMatches_LinkedOnly(orgId, key) ==
  {i \in 1..Len(emailGenerations) :
     /\ emailGenerations[i].orgId = orgId
     /\ emailGenerations[i].idempotencyKey = key
     /\ emailGenerations[i].generationRunId # NoRun}

\* rows of email_generations matching (orgId, idempotencyKey)
IdempotencyMatches(orgId, key) ==
  {i \in 1..Len(emailGenerations) :
     /\ emailGenerations[i].orgId = orgId
     /\ emailGenerations[i].idempotencyKey = key}

\* generate.ts: if (idempotencyKey) { findFirst(...); if (existing) return res.json(...) }
IdempotencyCheck(r) ==
  /\ pc[r] = "idempotency"
  /\ IF Truthy(req[r].idempotencyKey)
       THEN \E dbOk \in BOOLEAN :
              /\ trace' = [trace EXCEPT ![r] = Append(@, Call("findGeneration", dbOk, 0, <<>>))]
              /\ IF ~dbOk
                   THEN Throw(r, "db: query failed")
                   ELSE LET matches == IdempotencyMatches(req[r].orgId, req[r].idempotencyKey) IN
                        IF matches # {}
                          THEN /\ \E i \in matches :
                                    LET existing == emailGenerations[i] IN
                                    resp' = [resp EXCEPT ![r] =
                                      [NoResp EXCEPT !.status = 200, !.id = existing.id,
                                         !.subject = Coalesce(existing.subject, ""),
                                         !.sequence = CoalesceSeq(existing.sequence, <<>>),
                                         !.tokensInput = CoalesceInt(existing.tokensInput, 0),
                                         !.tokensOutput = CoalesceInt(existing.tokensOutput, 0)]]
                               /\ pc' = [pc EXCEPT ![r] = "done"]
                               /\ UNCHANGED log
                          ELSE /\ pc' = [pc EXCEPT ![r] = "template"]
                               /\ UNCHANGED <<resp, log>>
       ELSE /\ pc' = [pc EXCEPT ![r] = "template"]
            /\ UNCHANGED <<resp, log, trace>>
  /\ UNCHANGED <<req, result, generation, genRun, emailGenerations, contentGenerations,
                 prompts, runs, startedAfter>>
  /\ UNCHANGED libVars

\* the 404 is sent without return: the handler goes on to the key lookup
TemplateLookup_NoReturn(r) ==
  /\ pc[r] = "template"
  /\ \E dbOk \in BOOLEAN :
       /\ trace' = [trace EXCEPT ![r] = Append(@, Call("findPrompt", dbOk, 0, <<>>))]
       /\ IF ~dbOk THEN Throw(r, "db: query failed")
          ELSE IF PromptKey \notin prompts
            THEN /\ resp' = [resp EXCEPT ![r] =
                      [NoResp EXCEPT !.status = 404, !.error = "No prompt found"]]
                 /\ pc' = [pc EXCEPT ![r] = "key"]
                 /\ UNCHANGED log
            ELSE pc' = [pc EXCEPT ![r] = "key"] /\ UNCHANGED <<resp, log>>
  /\ UNCHANGED <<req, result, generation, genRun, emailGenerations, contentGenerations,
                 prompts, runs, startedAfter>>
  /\ UNCHANGED libVars

\* generate.ts: prompts.findFirst(appId, type); 404 when there is none
TemplateLookup(r) ==
  /\ pc[r] = "template"
  /\ \E dbOk \in BOOLEAN :
       /\ trace' = [trace EXCEPT ![r] = Append(@, Call("findPrompt", dbOk, 0, <<>>))]
       /\ IF ~dbOk THEN Throw(r, "db: query failed")
          ELSE IF PromptKey \notin prompts
            THEN Fail(r, 404, "No prompt found") /\ UNCHANGED log
            ELSE pc' = [pc EXCEPT ![r] = "key"] /\ UNCHANGED <<resp, log>>
  /\ UNCHANGED <<req, result, generation, genRun, emailGenerations, contentGenerations,
                 prompts, runs, startedAfter>>
  /\ UNCHANGED libVars

\* app keys are looked up by organization id as well
KeyLookup_ByOrg(r) ==
  IF req[r].keyMode = "byok"
    THEN [op |-> "getByokKey", arg |-> <<req[r].orgId, "anthropic">>]
    ELSE [op |-> "getAppKey", arg |-> <<req[r].orgId, "anthropic">>]

\* keyMode === "byok" ? getByokKey(clerkOrgId, "anthropic") : getAppKey(appId, "anthropic")
\* (the caller's organization is known to the handler as req.orgId and
\* req.clerkOrgId, both set by serviceAuth; the model keeps one id for it)
KeyLookup(r) ==
  IF req[r].keyMode = "byok"
    THEN [op |-> "getByokKey", arg |-> <<req[r].orgId, "anthropic">>]
    ELSE [op |-> "getAppKey", arg |-> <<PromptKey[1], "anthropic">>]

\* a rejected key lookup is made once more before the handler gives up
ResolveKey_Retry(r) ==
  /\ pc[r] = "key"
  /\ \E ok \in BOOLEAN :
       /\ trace' = [trace EXCEPT ![r] =
            Append(@, Call(KeyLookup(r).op, ok, 0, KeyLookup(r).arg))]
       /\ IF ok THEN pc' = [pc EXCEPT ![r] = "llm"] /\ UNCHANGED <<resp, log>>
          ELSE IF trace[r] # <<>> /\ ~trace[r][Len(trace[r])].ok
            THEN Throw(r, "anthropic key not configured")
            ELSE UNCHANGED <<pc, resp, log>>
  /\ UNCHANGED <<req, result, generation, genRun, emailGenerations, contentGenerations,
                 prompts, runs, startedAfter>>
  /\ UNCHANGED libVars

\* const apiKey = await (getByokKey | getAppKey)(...); a rejection reaches the catch
ResolveKey(r) ==
  /\ pc[r] = "key"
  /\ \E ok \in BOOLEAN :
       /\ trace' = [trace EXCEPT ![r] =
            Append(@, Call(KeyLookup(r).op, ok, 0, KeyLookup(r).arg))]
       /\ IF ok THEN pc' = [pc EXCEPT ![r] = "llm"] /\ UNCHANGED <<resp, log>>
          ELSE Throw(r, "anthropic key not configured")
  /\ UNCHANGED <<req, result, generation, genRun, emailGenerations, contentGenerations,
                 prompts, runs, startedAfter>>
  /\ UNCHANGED libVars

\* the model generateEmail of the legacy handler passes to the provider
LegacyLlmModel == "claude-opus-4-5"

LlmModelOf(e) ==
  IF e = "generate" THEN GenerateLlmModel
  ELSE IF e = "legacy" THEN LegacyLlmModel ELSE ContentLlmModel

\* every handler creates the run right after the LLM call
NextAfterLLM_RunFirst(e) == "createRun"

\* the statement that follows the LLM call: generate.ts stores the row,
\* content.ts creates the run
NextAfterLLM(e) == IF Strict(e) THEN "createRun" ELSE "insert"

\* The text of a provider reply, seen through the two things the parsers do
\* with it: JSON.parse(text), which returns a value or throws, and
\* text.split("\n"), a line being its leading marker and the rest.
NotJson == [parses |-> FALSE, value |-> <<>>]
Json(value) == [parses |-> TRUE, value |-> value]

\* {"subject": ..., "body": ..., "followup1": ..., "followup2": ...}
SequenceText(subject) ==
  [json |-> Json([subject |-> subject, body |-> "body",
                  followup1 |-> "followup1", followup2 |-> "followup2"]),
   lines |-> <<<<"{", "...}">>>>]

\* SUBJECT: <subject> / --- / <body>
EmailText(subject) ==
  [json |-> NotJson,
   lines |-> <<<<"SUBJECT:", subject>>, <<"---", "">>, <<"", "Hello,">>>>]

\* {"title": ..., "description": ..., "location": null}
CalendarText(title) ==
  [json |-> Json([title |-> title, description |-> "description", location |-> Null]),
   lines |-> <<<<"{", "...}">>>>]

\* a reply in prose, in none of the expected shapes
ProseText ==
  [json |-> NotJson, lines |-> <<<<"", "Sorry, I cannot help with that.">>>>]

\* the reply the endpoint's prompt asks for
WellFormedText(e, subject) ==
  IF e = "content" THEN EmailText(subject)
  ELSE IF e = "calendar" THEN CalendarText(subject)
  ELSE SequenceText(subject)

\* texts the provider may answer an endpoint's prompt with, given the reply's
\* subject and usage: the text asked for, or prose.  Prose is drawn with full
\* usage only (what a handler does with the usage does not depend on the
\* text); generateEmail of the legacy handler is given the expected shape only.
TextsOf(e, reply) ==
  IF e # "legacy" /\ reply.tokensInput = MaxTokens /\ reply.tokensOutput = MaxTokens
    THEN {WellFormedText(e, reply.subject), ProseText}
    ELSE {WellFormedText(e, reply.subject)}

IsWellFormed(e, text) == \E subject \in {"Subject A", "Subject B"} : text = WellFormedText(e, subject)

\* the for loop of parseEmailResponse over the first n lines
RECURSIVE ParseEmailLines(_, _)
ParseEmailLines(lines, n) ==
  IF n = 0 THEN [subject |-> "", bodyLines |-> <<>>, inBody |-> FALSE]
  ELSE LET acc == ParseEmailLines(lines, n - 1)
           line == lines[n]
       IN IF line[1] = "SUBJECT:" THEN [acc EXCEPT !.subject = line[2]]
          ELSE IF line[1] = "---" /\ line[2] = "" THEN [acc EXCEPT !.inBody = TRUE]
          ELSE IF acc.inBody THEN [acc EXCEPT !.bodyLines = Append(@, line)]
          ELSE acc

\* parseEmailResponse never throws: a text without SUBJECT: and --- gives
\* an empty subject and an empty body
ParseEmailResponse(text) ==
  LET acc == ParseEmailLines(text.lines, Len(text.lines)) IN
  [threw |-> FALSE, subject |-> acc.subject, sequence |-> <<>>]

\* parseCalendarResponse: JSON.parse in a try, rethrown as a parse error
ParseCalendarResponse(text) ==
  IF text.json.parses
    THEN [threw |-> FALSE, subject |-> text.json.value.title, sequence |-> <<>>]
    ELSE [threw |-> TRUE, subject |-> "", sequence |-> <<>>]

\* parseSequenceJson applied to the reply text: JSON.parse throws on a text
\* that is not JSON
ParseSequenceText(text) ==
  IF text.json.parses
    THEN [threw |-> FALSE, subject |-> text.json.value.subject,
          sequence |-> ParseSequenceJson(text.json.value)]
    ELSE [threw |-> TRUE, subject |-> "", sequence |-> <<>>]

\* the parser each client function applies to the reply text
ParseReply(e, text) ==
  IF e = "content" THEN ParseEmailResponse(text)
  ELSE IF e = "calendar" THEN ParseCalendarResponse(text)
  ELSE IF e = "generate" THEN ParseSequenceText(text)
  ELSE [threw |-> FALSE, subject |-> text.json.value.subject, sequence |-> <<>>]

\* generateFromTemplate / generateEmail / generateContent / generateCalendar:
\* the provider call, then the parse of the reply text; either may throw
InvokeLLM(r) ==
  /\ pc[r] = "llm"
  /\ LET e == req[r].endpoint
         model == LlmModelOf(e)
     IN
     \E ok \in BOOLEAN :
       IF ok
         THEN \E reply \in Replies : \E text \in TextsOf(e, reply) :
                LET parsed == ParseReply(e, text)
                    shape == IF IsWellFormed(e, text) THEN "well-formed" ELSE "malformed"
                IN
                /\ trace' = [trace EXCEPT ![r] =
                     Append(@, Call("llm", ~parsed.threw, 0, <<model, shape>>))]
                /\ IF parsed.threw
                     THEN /\ Throw(r, "llm: reply not parseable")
                          /\ UNCHANGED result
                     ELSE /\ result' = [result EXCEPT ![r] =
                               [subject |-> parsed.subject,
                                sequence |-> parsed.sequence,
                                tokensInput |-> reply.tokensInput,
                                tokensOutput |-> reply.tokensOutput,
                                costUsd |-> CostUsd(reply.tokensInput, reply.tokensOutput),
                                model |-> model]]
                          /\ pc' = [pc EXCEPT ![r] = NextAfterLLM(e)]
                          /\ UNCHANGED <<resp, log>>
         ELSE /\ trace' = [trace EXCEPT ![r] =
                   Append(@, Call("llm", FALSE, 0, <<model, "no reply">>))]
              /\ Throw(r, "llm: invocation failed")
              /\ UNCHANGED result
  /\ UNCHANGED <<req, generation, genRun, emailGenerations, contentGenerations,
                 prompts, runs, startedAfter>>
  /\ UNCHANGED libVars

\* the row is stored without the request's idempotency key
EmailRow_NoKey(r, id) ==
  [id |-> id, orgId |-> req[r].orgId,
   idempotencyKey |-> Null,
   subject |-> result[r].subject,
   sequence |-> IF req[r].endpoint = "generate" THEN result[r].sequence ELSE NullSeq,
   model |-> StoredModelOf(req[r].endpoint),
   tokensInput |-> result[r].tokensInput, tokensOutput |-> result[r].tokensOutput,
   generationRunId |-> NoRun]

\* the row generate.ts / the legacy handler inserts into email_generations
EmailRow(r, id) ==
  [id |-> id, orgId |-> req[r].orgId,
   idempotencyKey |-> IF req[r].endpoint = "generate"
                        THEN Coalesce(req[r].idempotencyKey, Null) ELSE Null,
   subject |-> result[r].subject,
   sequence |-> IF req[r].endpoint = "generate" THEN result[r].sequence ELSE NullSeq,
   model |-> StoredModelOf(req[r].endpoint),
   tokensInput |-> result[r].tokensInput, tokensOutput |-> result[r].tokensOutput,
   generationRunId |-> NoRun]

\* the insert with a unique index on (org_id, idempotency_key): a second row
\* with the same pair is rejected
Insert_UniqueKey(r) ==
  /\ pc[r] = "insert" /\ BestEffort(req[r].endpoint)
  /\ \E dbOk \in BOOLEAN :
       /\ trace' = [trace EXCEPT ![r] = Append(@, Call("insert", dbOk, 0, <<>>))]
       /\ IF dbOk
            THEN LET id == Len(emailGenerations) + 1 IN
                 /\ \A i \in 1..Len(emailGenerations) :
                      \/ emailGenerations[i].idempotencyKey = Null
                      \/ emailGenerations[i].orgId # EmailRow(r, id).orgId
                      \/ emailGenerations[i].idempotencyKey # EmailRow(r, id).idempotencyKey
                 /\ emailGenerations' = Append(emailGenerations, EmailRow(r, id))
                 /\ generation' = [generation EXCEPT ![r] = id]
                 /\ pc' = [pc EXCEPT ![r] = "createRun"]
                 /\ UNCHANGED <<resp, log>>
            ELSE /\ Throw(r, "db: insert failed")
                 /\ UNCHANGED <<emailGenerations, generation>>
  /\ UNCHANGED <<req, result, genRun, contentGenerations, prompts, runs, startedAfter>>
  /\ UNCHANGED libVars

\* db.insert(emailGenerations).values({...}).returning()
Insert(r) ==
  /\ pc[r] = "insert" /\ BestEffort(req[r].endpoint)
  /\ \E dbOk \in BOOLEAN :
       /\ trace' = [trace EXCEPT ![r] = Append(@, Call("insert", dbOk, 0, <<>>))]
       /\ IF dbOk
            THEN LET id == Len(emailGenerations) + 1 IN
                 /\ emailGenerations' = Append(emailGenerations, EmailRow(r, id))
                 /\ generation' = [generation EXCEPT ![r] = id]
                 /\ pc' = [pc EXCEPT ![r] = "createRun"]
                 /\ UNCHANGED <<resp, log>>
            ELSE /\ Throw(r, "db: insert failed")
                 /\ UNCHANGED <<emailGenerations, generation>>
  /\ UNCHANGED <<req, result, genRun, contentGenerations, prompts, runs, startedAfter>>
  /\ UNCHANGED libVars

\* the catch logs with console.warn: nothing reaches the error log
CostTrackingFailed_Warn(r) ==
  /\ log' = log
  /\ resp' = [resp EXCEPT ![r] = SuccessBody(r)]
  /\ pc' = [pc EXCEPT ![r] = "done"]

\* catch (err) { console.error("COST TRACKING FAILED ...") } then res.json(...)
CostTrackingFailed(r) ==
  /\ log' = [log EXCEPT ![r] = Append(@, "COST TRACKING FAILED")]
  /\ resp' = [resp EXCEPT ![r] = SuccessBody(r)]
  /\ pc' = [pc EXCEPT ![r] = "done"]

ServiceNameOf(e) ==
  IF e = "generate" THEN "content-generation-service" ELSE "emailgeneration-service"

TaskNameOf(e) ==
  IF e = "content" THEN "content-generation"
  ELSE IF e = "calendar" THEN "calendar-generation" ELSE "single-generation"

NewRun(r, id) ==
  [id |-> id, orgId |-> req[r].orgId, serviceName |-> ServiceNameOf(req[r].endpoint),
   taskName |-> TaskNameOf(req[r].endpoint), status |-> "running", costs |-> <<>>]

\* the run id is not written back: addCosts follows createRun directly
CreateRun_SkipLink(r) ==
  /\ pc[r] = "createRun" /\ BestEffort(req[r].endpoint)
  /\ \E ok \in BOOLEAN :
       /\ trace' = [trace EXCEPT ![r] = Append(@, Call("createRun", ok, 0, <<>>))]
       /\ IF ok
            THEN LET id == Len(runs) + 1 IN
                 /\ runs' = Append(runs, NewRun(r, id))
                 /\ genRun' = [genRun EXCEPT ![r] = id]
                 /\ pc' = [pc EXCEPT ![r] = "costs"]
                 /\ UNCHANGED <<resp, log>>
            ELSE /\ CostTrackingFailed(r)
                 /\ UNCHANGED <<runs, genRun>>
  /\ UNCHANGED <<req, result, generation, emailGenerations, contentGenerations,
                 prompts, startedAfter>>
  /\ UNCHANGED libVars

\* try { const genRun = await createRun({...}) ... } catch
CreateRun(r) ==
  /\ pc[r] = "createRun" /\ BestEffort(req[r].endpoint)
  /\ \E ok \in BOOLEAN :
       /\ trace' = [trace EXCEPT ![r] = Append(@, Call("createRun", ok, 0, <<>>))]
       /\ IF ok
            THEN LET id == Len(runs) + 1 IN
                 /\ runs' = Append(runs, NewRun(r, id))
                 /\ genRun' = [genRun EXCEPT ![r] = id]
                 /\ pc' = [pc EXCEPT ![r] = "link"]
                 /\ UNCHANGED <<resp, log>>
            ELSE /\ CostTrackingFailed(r)
                 /\ UNCHANGED <<runs, genRun>>
  /\ UNCHANGED <<req, result, generation, emailGenerations, contentGenerations,
                 prompts, startedAfter>>
  /\ UNCHANGED libVars

\* the link update matches no row
LinkRun_NoRow(r) ==
  /\ pc[r] = "link"
  /\ \E dbOk \in BOOLEAN :
       /\ trace' = [trace EXCEPT ![r] = Append(@, Call("link", dbOk, genRun[r], <<>>))]
       /\ IF dbOk
            THEN /\ pc' = [pc EXCEPT ![r] = "costs"]
                 /\ UNCHANGED <<resp, log, emailGenerations>>
            ELSE /\ CostTrackingFailed(r)
                 /\ UNCHANGED emailGenerations
  /\ UNCHANGED <<req, result, generation, genRun, contentGenerations, prompts, runs,
                 startedAfter>>
  /\ UNCHANGED libVars

\* the update has no where clause
LinkWhere_AnyRow(r, row) == TRUE

\* the update selects the rows of the caller's organization
LinkWhere_SameOrg(r, row) == row.orgId = req[r].orgId

\* .where(eq(emailGenerations.id, generation.id))
LinkWhere(r, row) == row.id = generation[r]

\* the update clears the idempotency key as well
LinkSet_ClearsKey(r, row) ==
  [row EXCEPT !.generationRunId = genRun[r], !.idempotencyKey = Null]

\* .set({ generationRunId: genRun.id })
LinkSet(r, row) == [row EXCEPT !.generationRunId = genRun[r]]

\* db.update(emailGenerations).set({ generationRunId: genRun.id }).where(id = generation.id)
LinkRun(r) ==
  /\ pc[r] = "link"
  /\ \E dbOk \in BOOLEAN :
       /\ trace' = [trace EXCEPT ![r] = Append(@, Call("link", dbOk, genRun[r], <<>>))]
       /\ IF dbOk
            THEN /\ emailGenerations' =
                      [i \in 1..Len(emailGenerations) |->
                         IF LinkWhere(r, emailGenerations[i])
                           THEN LinkSet(r, emailGenerations[i])
                           ELSE emailGenerations[i]]
                 /\ pc' = [pc EXCEPT ![r] = "costs"]
                 /\ UNCHANGED <<resp, log>>
            ELSE /\ CostTrackingFailed(r)
                 /\ UNCHANGED emailGenerations
  /\ UNCHANGED <<req, result, generation, genRun, contentGenerations, prompts, runs,
                 startedAfter>>
  /\ UNCHANGED libVars

\* a failure of addCosts is logged and the handler goes on to updateRun
ReportCosts_Continue(r) ==
  /\ pc[r] = "costs" /\ BestEffort(req[r].endpoint)
  /\ LET items == CostItems(CostNamesOf(req[r].endpoint),
                            result[r].tokensInput, result[r].tokensOutput) IN
     IF Len(items) > 0
       THEN \E ok \in BOOLEAN :
              /\ trace' = [trace EXCEPT ![r] = Append(@, Call("addCosts", ok, genRun[r], items))]
              /\ pc' = [pc EXCEPT ![r] = "updateRun"]
              /\ runs' = IF ok THEN [runs EXCEPT ![genRun[r]].costs = @ \o items] ELSE runs
              /\ log' = IF ok THEN log
                        ELSE [log EXCEPT ![r] = Append(@, "COST TRACKING FAILED")]
              /\ UNCHANGED resp
       ELSE /\ pc' = [pc EXCEPT ![r] = "updateRun"]
            /\ UNCHANGED <<trace, runs, resp, log>>
  /\ UNCHANGED <<req, result, generation, genRun, emailGenerations, contentGenerations,
                 prompts, startedAfter>>
  /\ UNCHANGED libVars

\* if (costItems.length > 0) await addCosts(genRun.id, costItems)
ReportCosts(r) ==
  /\ pc[r] = "costs" /\ BestEffort(req[r].endpoint)
  /\ LET items == CostItems(CostNamesOf(req[r].endpoint),
                            result[r].tokensInput, result[r].tokensOutput) IN
     IF Len(items) > 0
       THEN \E ok \in BOOLEAN :
              /\ trace' = [trace EXCEPT ![r] = Append(@, Call("addCosts", ok, genRun[r], items))]
              /\ IF ok
                   THEN /\ runs' = [runs EXCEPT ![genRun[r]].costs = @ \o items]
                        /\ pc' = [pc EXCEPT ![r] = "updateRun"]
                        /\ UNCHANGED <<resp, log>>
                   ELSE /\ CostTrackingFailed(r)
                        /\ UNCHANGED runs
       ELSE /\ pc' = [pc EXCEPT ![r] = "updateRun"]
            /\ UNCHANGED <<trace, runs, resp, log>>
  /\ UNCHANGED <<req, result, generation, genRun, emailGenerations, contentGenerations,
                 prompts, startedAfter>>
  /\ UNCHANGED libVars

\* await updateRun(genRun.id, "completed"); then res.json(...)
CompleteRun(r) ==
  /\ pc[r] = "updateRun" /\ BestEffort(req[r].endpoint)
  /\ \E ok \in BOOLEAN :
       /\ trace' = [trace EXCEPT ![r] = Append(@, Call("updateRun", ok, genRun[r], <<"completed">>))]
       /\ IF ok
            THEN /\ runs' = [runs EXCEPT ![genRun[r]].status = "completed"]
                 /\ resp' = [resp EXCEPT ![r] = SuccessBody(r)]
                 /\ pc' = [pc EXCEPT ![r] = "done"]
                 /\ UNCHANGED log
            ELSE /\ CostTrackingFailed(r)
                 /\ UNCHANGED runs
  /\ UNCHANGED <<req, result, generation, genRun, emailGenerations, contentGenerations,
                 prompts, startedAfter>>
  /\ UNCHANGED libVars

\* content.ts: const genRun = await createRun({...}) -- before the insert
ContentCreateRun(r) ==
  /\ pc[r] = "createRun" /\ Strict(req[r].endpoint)
  /\ \E ok \in BOOLEAN :
       /\ trace' = [trace EXCEPT ![r] = Append(@, Call("createRun", ok, 0, <<>>))]
       /\ IF ok
            THEN LET id == Len(runs) + 1 IN
                 /\ runs' = Append(runs, NewRun(r, id))
                 /\ genRun' = [genRun EXCEPT ![r] = id]
                 /\ pc' = [pc EXCEPT ![r] = "insert"]
                 /\ UNCHANGED <<resp, log>>
            ELSE /\ Throw(r, "runs-service: createRun failed")
                 /\ UNCHANGED <<runs, genRun>>
  /\ UNCHANGED <<req, result, generation, emailGenerations, contentGenerations,
                 prompts, startedAfter>>
  /\ UNCHANGED libVars

\* the row content.ts inserts into content_generations
ContentRow(r, id) ==
  [id |-> id, orgId |-> req[r].orgId,
   type |-> IF req[r].endpoint = "content" THEN "email" ELSE "calendar",
   keyMode |-> req[r].keyMode,
   subject |-> result[r].subject,
   generationRunId |-> genRun[r],
   model |-> ContentStoredModel,
   tokensInput |-> result[r].tokensInput, tokensOutput |-> result[r].tokensOutput]

\* content.ts: db.insert(contentGenerations).values({..., generationRunId: genRun.id})
ContentInsert(r) ==
  /\ pc[r] = "insert" /\ Strict(req[r].endpoint)
  /\ \E dbOk \in BOOLEAN :
       /\ trace' = [trace EXCEPT ![r] = Append(@, Call("insert", dbOk, genRun[r], <<>>))]
       /\ IF dbOk
            THEN LET id == Len(contentGenerations) + 1 IN
                 /\ contentGenerations' = Append(contentGenerations, ContentRow(r, id))
                 /\ generation' = [generation EXCEPT ![r] = id]
                 /\ pc' = [pc EXCEPT ![r] = "costs"]
                 /\ UNCHANGED <<resp, log>>
            ELSE /\ Throw(r, "db: insert failed")
                 /\ UNCHANGED <<contentGenerations, generation>>
  /\ UNCHANGED <<req, result, genRun, emailGenerations, prompts, runs, startedAfter>>
  /\ UNCHANGED libVars

\* the insert and addCosts run in one transaction: a rejected addCosts
\* removes the inserted row
ContentReportCosts_Rollback(r) ==
  /\ pc[r] = "costs" /\ Strict(req[r].endpoint)
  /\ LET items == CostItems(ContentCostNames,
                            result[r].tokensInput, result[r].tokensOutput) IN
     IF Len(items) > 0
       THEN \E ok \in BOOLEAN :
              /\ trace' = [trace EXCEPT ![r] = Append(@, Call("addCosts", ok, genRun[r], items))]
              /\ IF ok
                   THEN /\ runs' = [runs EXCEPT ![genRun[r]].costs = @ \o items]
                        /\ pc' = [pc EXCEPT ![r] = "updateRun"]
                        /\ UNCHANGED <<resp, log, contentGenerations>>
                   ELSE /\ Throw(r, "runs-service: addCosts failed")
                        /\ contentGenerations' =
                             SubSeq(contentGenerations, 1, generation[r] - 1)
                             \o SubSeq(contentGenerations, generation[r] + 1,
                                       Len(contentGenerations))
                        /\ UNCHANGED runs
       ELSE /\ pc' = [pc EXCEPT ![r] = "updateRun"]
            /\ UNCHANGED <<trace, runs, resp, log, contentGenerations>>
  /\ UNCHANGED <<req, result, generation, genRun, emailGenerations,
                 prompts, startedAfter>>
  /\ UNCHANGED libVars

\* content.ts: if (costItems.length > 0) await addCosts(genRun.id, costItems) -- MUST succeed
ContentReportCosts(r) ==
  /\ pc[r] = "costs" /\ Strict(req[r].endpoint)
  /\ LET items == CostItems(ContentCostNames,
                            result[r].tokensInput, result[r].tokensOutput) IN
     IF Len(items) > 0
       THEN \E ok \in BOOLEAN :
              /\ trace' = [trace EXCEPT ![r] = Append(@, Call("addCosts", ok, genRun[r], items))]
              /\ IF ok
                   THEN /\ runs' = [runs EXCEPT ![genRun[r]].costs = @ \o items]
                        /\ pc' = [pc EXCEPT ![r] = "updateRun"]
                        /\ UNCHANGED <<resp, log>>
                   ELSE /\ Throw(r, "runs-service: addCosts failed")
                        /\ UNCHANGED runs
       ELSE /\ pc' = [pc EXCEPT ![r] = "updateRun"]
            /\ UNCHANGED <<trace, runs, resp, log>>
  /\ UNCHANGED <<req, result, generation, genRun, emailGenerations, contentGenerations,
                 prompts, startedAfter>>
  /\ UNCHANGED libVars

\* a failed updateRun is swallowed as on POST /generate
ContentCompleteRun_Swallow(r) ==
  /\ pc[r] = "updateRun" /\ Strict(req[r].endpoint)
  /\ \E ok \in BOOLEAN :
       /\ trace' = [trace EXCEPT ![r] = Append(@, Call("updateRun", ok, genRun[r], <<"completed">>))]
       /\ IF ok
            THEN /\ runs' = [runs EXCEPT ![genRun[r]].status = "completed"]
                 /\ resp' = [resp EXCEPT ![r] = SuccessBody(r)]
                 /\ pc' = [pc EXCEPT ![r] = "done"]
                 /\ UNCHANGED log
            ELSE /\ CostTrackingFailed(r)
                 /\ UNCHANGED runs
  /\ UNCHANGED <<req, result, generation, genRun, emailGenerations, contentGenerations,
                 prompts, startedAfter>>
  /\ UNCHANGED libVars

\* content.ts: await updateRun(genRun.id, "completed"); res.json(...)
ContentCompleteRun(r) ==
  /\ pc[r] = "updateRun" /\ Strict(req[r].endpoint)
  /\ \E ok \in BOOLEAN :
       /\ trace' = [trace EXCEPT ![r] = Append(@, Call("updateRun", ok, genRun[r], <<"completed">>))]
       /\ IF ok
            THEN /\ runs' = [runs EXCEPT ![genRun[r]].status = "completed"]
                 /\ resp' = [resp EXCEPT ![r] = SuccessBody(r)]
                 /\ pc' = [pc EXCEPT ![r] = "done"]
                 /\ UNCHANGED log
            ELSE /\ Throw(r, "runs-service: updateRun failed")
                 /\ UNCHANGED runs
  /\ UNCHANGED <<req, result, generation, genRun, emailGenerations, contentGenerations,
                 prompts, startedAfter>>
  /\ UNCHANGED libVars

\* PUT /prompts as the generation handlers see it: from its insert on, a
\* prompt is stored for (appId, type)
PutPrompt ==
  /\ PromptKey \notin prompts
  /\ prompts' = prompts \cup {PromptKey}
  /\ UNCHANGED <<pc, req, result, generation, genRun, emailGenerations,
                 contentGenerations, runs, trace, log, resp, startedAfter>>
  /\ UNCHANGED libVars

Next ==
  \/ PutPrompt
  \/ \E r \in Req : Receive(r)
  \/ \E r \in Req : IdempotencyCheck(r)
  \/ \E r \in Req : TemplateLookup(r)
  \/ \E r \in Req : ResolveKey(r)
  \/ \E r \in Req : InvokeLLM(r)
  \/ \E r \in Req : Insert(r)
  \/ \E r \in Req : CreateRun(r)
  \/ \E r \in Req : LinkRun(r)
  \/ \E r \in Req : ReportCosts(r)
  \/ \E r \in Req : CompleteRun(r)
  \/ \E r \in Req : ContentCreateRun(r)
  \/ \E r \in Req : ContentInsert(r)
  \/ \E r \in Req : ContentReportCosts(r)
  \/ \E r \in Req : ContentCompleteRun(r)

Spec == Init /\ [][Next]_vars

\* the steps of the handler that executes request r, from its first await on
HandlerStep(r) ==
  \/ IdempotencyCheck(r) \/ TemplateLookup(r) \/ ResolveKey(r) \/ InvokeLLM(r)
  \/ Insert(r) \/ CreateRun(r) \/ LinkRun(r) \/ ReportCosts(r) \/ CompleteRun(r)
  \/ ContentCreateRun(r) \/ ContentInsert(r) \/ ContentReportCosts(r)
  \/ ContentCompleteRun(r)

\* every awaited call returns or fails: a handler that can take its next step
\* eventually takes it
\* a request arrives while no other request is being handled: for the
\* question whether a handler returns, which never waits for another handler,
\* requests are taken one after the other
ReceiveNext(r) ==
  /\ \A s \in Req \ {r} : pc[s] \in {"idle", "done"}
  /\ Receive(r)

LiveNext ==
  \/ PutPrompt
  \/ \E r \in Req : ReceiveNext(r)
  \/ \E r \in Req : HandlerStep(r)

LiveSpec == Init /\ [][LiveNext]_vars /\ \A r \in Req : WF_vars(HandlerStep(r))

\* ------------------------------------------------ ledger client: the call
\* one HTTP attempt of the call and what the client does with its status:
\* return the body, warn and wait for the next attempt, or raise
Fetch ==
  /\ rpc = "fetch"
  /\ \E status \in Statuses :
       /\ fetched' = Append(fetched, status)
       /\ IF StatusOk(status)
            THEN /\ outcome' = [NoOutcome EXCEPT !.state = "returned",
                                                 !.body = Len(fetched) + 1]
                 /\ rpc' = "done"
                 /\ UNCHANGED warned
          ELSE IF Retryable(status) /\ Len(fetched) < MaxRetries
            THEN /\ warned' = Append(warned, RetryWarning(Len(fetched) + 1))
                 /\ rpc' = "sleep"
                 /\ UNCHANGED outcome
          ELSE /\ outcome' = [NoOutcome EXCEPT !.state = "threw",
                                               !.error = LedgerError(call, status)]
               /\ rpc' = "done"
               /\ UNCHANGED warned
  /\ UNCHANGED <<call, slept>>
  /\ UNCHANGED <<vars, fnVars, upsertVars>>

\* the delay before the next attempt has passed
Backoff ==
  /\ rpc = "sleep"
  /\ slept' = Append(slept, BackoffDelay(Len(slept) + 1))
  /\ rpc' = "fetch"
  /\ UNCHANGED <<call, fetched, warned, outcome>>
  /\ UNCHANGED <<vars, fnVars, upsertVars>>

RetryInit ==
  /\ NoRequests
  /\ FnIdle
  /\ PutIdle
  /\ call \in LedgerCalls
  /\ rpc = "fetch"
  /\ fetched = <<>>
  /\ warned = <<>>
  /\ slept = <<>>
  /\ outcome = NoOutcome

RetryNext ==
  \/ Fetch
  \/ Backoff

RetrySpec == RetryInit /\ [][RetryNext]_retryVars

\* ----------------------------------- template substitution engine: calls
\* The functions are pure: each behaviour draws the arguments of one call.
ApplyCoerceToString ==
  /\ fn = "none"
  /\ \E value \in Values :
       /\ input' = <<value>>
       /\ output' = CoerceToString(value)
  /\ fn' = "coerceToString"
  /\ UNCHANGED <<vars, retryVars, upsertVars>>

ApplySubstituteVariables ==
  /\ fn = "none"
  /\ \E template \in Templates, variables \in VariableMaps :
       /\ input' = <<template, variables>>
       /\ output' = SubstituteVariables(template, variables)
  /\ fn' = "substituteVariables"
  /\ UNCHANGED <<vars, retryVars, upsertVars>>

ApplyParseSequenceJson ==
  /\ fn = "none"
  /\ \E json \in SequenceJsons :
       /\ input' = <<json>>
       /\ output' = ParseSequenceJson(json)
  /\ fn' = "parseSequenceJson"
  /\ UNCHANGED <<vars, retryVars, upsertVars>>

FnInit ==
  /\ NoRequests
  /\ RetryIdle
  /\ FnIdle
  /\ PutIdle

FnNext ==
  \/ ApplyCoerceToString
  \/ ApplySubstituteVariables
  \/ ApplyParseSequenceJson

FnSpec == FnInit /\ [][FnNext]_fnVars

\* ------------------------------------------------ PUT /prompts: the handler
\* rows of prompts matching (appId, type)
PromptMatches(appId, type) ==
  {i \in 1..Len(promptsTable) :
     promptsTable[i].appId = appId /\ promptsTable[i].type = type}

\* the table has no unique index
UniqueViolation_NoIndex(appId, type) == FALSE

\* uniqueIndex("idx_prompts_app_type").on(appId, type): the insert is rejected
UniqueViolation(appId, type) == PromptMatches(appId, type) # {}

\* the time of the next write: the column defaults and new Date() grow with
\* every write
Now == Len(upserts) + 1

PutFail(p, status, message) ==
  put' = [put EXCEPT ![p].pc = "done", ![p].status = status, ![p].error = message]

\* res.json({ id, appId, type, createdAt, updatedAt }) of the returned row
PutAnswer(p, row) ==
  put' = [put EXCEPT ![p].pc = "done", ![p].status = 200, ![p].id = row.id,
                     ![p].updatedAt = row.updatedAt]

\* the request arrives; safeParse rejects a malformed body with 400
PutReceive(p) ==
  /\ put[p].pc = "idle"
  /\ \E valid \in BOOLEAN :
       IF valid
         THEN \E key \in PromptKeys, text \in PromptTexts :
                put' = [put EXCEPT ![p] = [NoPut EXCEPT !.pc = "find", !.appId = key[1],
                                                        !.type = key[2], !.prompt = text]]
         ELSE PutFail(p, 400, "validation")
  /\ UNCHANGED <<promptsTable, upserts>>
  /\ UNCHANGED <<vars, retryVars, fnVars>>

\* const existing = await db.query.prompts.findFirst({ where: appId and type })
PutFind(p) ==
  /\ put[p].pc = "find"
  /\ \E dbOk \in BOOLEAN :
       IF ~dbOk THEN PutFail(p, 500, "db: query failed")
       ELSE LET matches == PromptMatches(put[p].appId, put[p].type) IN
            IF matches = {}
              THEN put' = [put EXCEPT ![p].pc = "write"]
              ELSE \E i \in matches :
                     put' = [put EXCEPT ![p].pc = "write", ![p].existing = i]
  /\ UNCHANGED <<promptsTable, upserts>>
  /\ UNCHANGED <<vars, retryVars, fnVars>>

\* if (existing) update(prompts).set({ prompt, updatedAt }).where(appId and type)
\* else insert(prompts).values({ appId, type, prompt }); then res.json(result)
PutWrite(p) ==
  /\ put[p].pc = "write"
  /\ \E dbOk \in BOOLEAN :
       IF ~dbOk
         THEN PutFail(p, 500, "db: write failed") /\ UNCHANGED <<promptsTable, upserts>>
       ELSE IF put[p].existing # 0
         THEN LET matches == PromptMatches(put[p].appId, put[p].type)
                  updated(row) == [row EXCEPT !.prompt = put[p].prompt, !.updatedAt = Now]
              IN
              /\ promptsTable' =
                   [i \in 1..Len(promptsTable) |->
                      IF i \in matches THEN updated(promptsTable[i]) ELSE promptsTable[i]]
              /\ upserts' = Append(upserts, p)
              /\ \E i \in matches :
                   /\ \A j \in matches : i <= j
                   /\ PutAnswer(p, updated(promptsTable[i]))
       ELSE IF UniqueViolation(put[p].appId, put[p].type)
         THEN PutFail(p, 500, "duplicate key value violates unique constraint")
              /\ UNCHANGED <<promptsTable, upserts>>
       ELSE LET row == [id |-> Len(promptsTable) + 1, appId |-> put[p].appId,
                        type |-> put[p].type, prompt |-> put[p].prompt,
                        createdAt |-> Now, updatedAt |-> Now]
            IN
            /\ promptsTable' = Append(promptsTable, row)
            /\ upserts' = Append(upserts, p)
            /\ PutAnswer(p, row)
  /\ UNCHANGED <<vars, retryVars, fnVars>>

PromptInit ==
  /\ NoRequests
  /\ RetryIdle
  /\ FnIdle
  /\ PutIdle

PromptNext ==
  \/ \E p \in PutReq : PutReceive(p)
  \/ \E p \in PutReq : PutFind(p)
  \/ \E p \in PutReq : PutWrite(p)

PromptSpec == PromptInit /\ [][PromptNext]_upsertVars

\* ------------------------------------------------------- reading the trace
CallsOf(r, op) == {i \in 1..Len(trace[r]) : trace[r][i].op = op}
Made(r, op) == CallsOf(r, op) # {}
Succeeded(r, op) == \E i \in CallsOf(r, op) : trace[r][i].ok
Rejected(r, op) == \E i \in CallsOf(r, op) : ~trace[r][i].ok
OpsOf(r) == [i \in 1..Len(trace[r]) |-> trace[r][i].op]
LedgerOps == {"createRun", "addCosts", "updateRun"}
KeyOps == {"getByokKey", "getAppKey"}

\* the request was answered from a stored generation
IdempotentHit(r) ==
  /\ pc[r] = "done" /\ resp[r].status = 200
  /\ OpsOf(r) = <<"findGeneration">>

\* the 200 body of a stored row of email_generations
BodyOfRow(row) ==
  [status |-> 200, id |-> row.id, subject |-> row.subject, sequence |-> row.sequence,
   tokensInput |-> row.tokensInput, tokensOutput |-> row.tokensOutput, error |-> ""]

\* stored rows with the organization and the idempotency key of request r
StoredFor(r) ==
  {i \in 1..Len(emailGenerations) :
     /\ emailGenerations[i].orgId = req[r].orgId
     /\ emailGenerations[i].idempotencyKey = req[r].idempotencyKey}

\* request r passes its idempotency step and the lookup, if made, resolved
PassesIdempotencyStep(r) ==
  /\ pc[r] = "idempotency" /\ pc'[r] # "idempotency"
  /\ resp'[r].status # 500

\* the step answered r from a stored row and did nothing else
AnsweredFromStore(r) ==
  /\ pc'[r] = "done"
  /\ \E i \in StoredFor(r) : resp'[r] = BodyOfRow(emailGenerations[i])
  /\ \A i \in 1..Len(trace'[r]) : trace'[r][i].op = "findGeneration"
  /\ UNCHANGED <<emailGenerations, contentGenerations, runs>>

\* an answered request does nothing more
Finished(r) ==
  pc[r] = "done" =>
    /\ pc'[r] = "done" /\ trace'[r] = trace[r] /\ resp'[r] = resp[r]

RepeatedAfterSuccess(r, s) ==
  /\ r # s /\ r \in startedAfter[s]
  /\ req[r].endpoint = "generate" /\ req[s] = req[r]
  /\ req[r].idempotencyKey # Undefined
  /\ resp[r].status = 200
  /\ pc[s] = "done" /\ resp[s].status = 200

NumCalls(r, op) == Cardinality(CallsOf(r, op))
NumSucceeded(r, op) == Cardinality({i \in CallsOf(r, op) : trace[r][i].ok})

BothMissed(r, s) ==
  /\ r # s
  /\ req[r].endpoint = "generate" /\ req[s].endpoint = "generate"
  /\ req[r].orgId = req[s].orgId
  /\ req[r].idempotencyKey = req[s].idempotencyKey
  /\ req[r].idempotencyKey \notin {Undefined, ""}
  /\ Succeeded(r, "findGeneration") /\ Succeeded(s, "findGeneration")
  /\ ~IdempotentHit(r) /\ ~IdempotentHit(s)

\* C3: two concurrent POST /generate requests with the same organization and
\* idempotency key can both miss the lookup, both call the LLM and both
\* insert: a request that missed the lookup and reached its insert is never
\* stopped by a row with its (organization, key) that was stored meanwhile.
C3_InsertNotGuarded ==
  \A r \in Req :
    (pc[r] = "insert" /\ req[r].endpoint = "generate" /\ StoredFor(r) # {}) =>
      ENABLED (Insert(r) /\ Len(emailGenerations') = Len(emailGenerations) + 1)

\* two generation records with the same (organization, idempotency key)
C3_Witness ==
  \E r, s \in Req :
    /\ BothMissed(r, s)
    /\ Succeeded(r, "llm") /\ Succeeded(s, "llm")
    /\ generation[r] # 0 /\ generation[s] # 0 /\ generation[r] # generation[s]
    /\ emailGenerations[generation[r]].idempotencyKey = "idem-key-1"
    /\ emailGenerations[generation[s]].idempotencyKey = "idem-key-1"
    /\ emailGenerations[generation[r]].orgId = emailGenerations[generation[s]].orgId

\* the row request r inserted
RowOf(r) ==
  IF BestEffort(req[r].endpoint)
    THEN emailGenerations[generation[r]] ELSE contentGenerations[generation[r]]

\* call i of request r comes after a successful insert of r
AfterInsert(r, i) == \E j \in 1..(i - 1) : trace[r][j].op = "insert" /\ trace[r][j].ok

C5_RunLinkedBeforeCosts ==
  \A r \in Req :
    (pc[r] \in {"costs", "updateRun"} \/ Made(r, "addCosts") \/ Made(r, "updateRun")) =>
      /\ genRun[r] # NoRun /\ generation[r] # 0
      /\ RowOf(r).generationRunId = genRun[r]

C5_Witness ==
  \E r, s \in Req :
    /\ req[r].endpoint = "generate" /\ Rejected(r, "addCosts")
    /\ RowOf(r).generationRunId = genRun[r] /\ genRun[r] # NoRun
    /\ Strict(req[s].endpoint) /\ Rejected(s, "updateRun")

\* the body a best-effort request answers when nothing fails
GeneratedBody(r) ==
  [status |-> 200, id |-> generation[r], subject |-> result[r].subject,
   sequence |-> result[r].sequence, tokensInput |-> result[r].tokensInput,
   tokensOutput |-> result[r].tokensOutput, error |-> ""]

LedgerStepRejected(r) ==
  \/ Rejected(r, "createRun") \/ Rejected(r, "link")
  \/ Rejected(r, "addCosts") \/ Rejected(r, "updateRun")

InLog(r, line) == \E i \in 1..Len(log[r]) : log[r][i] = line

\* C6: best-effort ledger policy.  On POST /generate (template and legacy),
\* once the record is persisted, a failure of createRun, of the link update,
\* of addCosts or of updateRun is logged with console.error and the request
\* answers 200 with the body it answers when the ledger steps succeed.
C6_BestEffortLedger ==
  \A r \in Req :
    (BestEffort(req[r].endpoint) /\ Succeeded(r, "insert") /\ pc[r] = "done") =>
      /\ resp[r] = GeneratedBody(r)
      /\ LedgerStepRejected(r) <=> InLog(r, "COST TRACKING FAILED")

C6_Witness ==
  \E r, s \in Req :
    /\ req[r].endpoint = "generate" /\ pc[r] = "done" /\ Rejected(r, "link")
    /\ req[s].endpoint = "legacy" /\ pc[s] = "done" /\ Rejected(s, "updateRun")

\* C7: strict ledger policy.  On POST /generate/content and /generate/calendar
\* a failure of createRun, addCosts or updateRun answers 500 with the
\* failure's message; a 200 implies that createRun, addCosts (when there is a
\* cost item) and updateRun("completed") all succeeded.
C7_StrictLedger ==
  \A r \in Req :
    (Strict(req[r].endpoint) /\ pc[r] = "done") =>
      /\ \A op \in LedgerOps :
           Rejected(r, op) =>
             /\ resp[r].status = 500
             /\ resp[r].error = "runs-service: " \o op \o " failed"
      /\ resp[r].status = 200 =>
           /\ Succeeded(r, "createRun") /\ Succeeded(r, "updateRun")
           /\ (result[r].tokensInput # 0 \/ result[r].tokensOutput # 0)
                => Succeeded(r, "addCosts")
           /\ runs[genRun[r]].status = "completed"

C7_Witness ==
  \E r, s \in Req :
    /\ req[r].endpoint = "content" /\ Rejected(r, "addCosts") /\ resp[r].status = 500
    /\ req[s].endpoint = "calendar" /\ resp[s].status = 200 /\ Succeeded(s, "addCosts")

\* the pipeline steps of a request from key resolution on, in call order
StepName(op) == IF op \in KeyOps THEN "key" ELSE op
IsPipelineStep(op) == op \notin {"findGeneration", "findPrompt"}
PipelineOf(r) ==
  LET steps == SelectSeq(OpsOf(r), IsPipelineStep) IN
  [i \in 1..Len(steps) |-> StepName(steps[i])]

HasCostItem(r) == result[r].tokensInput # 0 \/ result[r].tokensOutput # 0
ReportStep(r) == IF HasCostItem(r) THEN <<"addCosts">> ELSE <<>>

\* the request generated and no step of it failed
RanWithoutFailure(r) ==
  /\ pc[r] = "done" /\ resp[r].status = 200 /\ Made(r, "llm")
  /\ \A i \in 1..Len(trace[r]) : trace[r][i].ok

C9_CostItems ==
  \A r \in Req :
    LET names == CostNamesOf(req[r].endpoint)
        ti == result[r].tokensInput
        to == result[r].tokensOutput
    IN
    /\ NumCalls(r, "addCosts") <= 1
    /\ (ti = 0 /\ to = 0) => ~Made(r, "addCosts")
    /\ (Made(r, "updateRun") /\ (ti # 0 \/ to # 0)) => Made(r, "addCosts")
    /\ \A i \in CallsOf(r, "addCosts") :
         LET items == trace[r][i].arg IN
         /\ Len(items) = (IF ti # 0 THEN 1 ELSE 0) + (IF to # 0 THEN 1 ELSE 0)
         /\ ti # 0 <=> \E k \in 1..Len(items) : items[k].costName = names[1]
         /\ to # 0 <=> \E k \in 1..Len(items) : items[k].costName = names[2]
         /\ \A k \in 1..Len(items) :
              /\ items[k].costName = names[1] => items[k].quantity = ti
              /\ items[k].costName = names[2] => items[k].quantity = to
              /\ items[k].costName \in {names[1], names[2]}

C9_Witness ==
  \E r, s \in Req :
    /\ Made(r, "addCosts") /\ result[r].tokensInput = 0 /\ result[r].tokensOutput # 0
    /\ Made(s, "updateRun") /\ ~Made(s, "addCosts")

\* the provider/model pair a cost name is keyed to
ModelOfCostName(name) ==
  IF name \in {"anthropic-sonnet-4.6-tokens-input", "anthropic-sonnet-4.6-tokens-output"}
    THEN "claude-sonnet-4-6"
  ELSE IF name \in {"anthropic-opus-4.6-tokens-input", "anthropic-opus-4.6-tokens-output"}
    THEN "claude-opus-4-6"
  ELSE IF name \in {"anthropic-opus-4.5-tokens-input", "anthropic-opus-4.5-tokens-output"}
    THEN "claude-opus-4-5"
  ELSE "unknown"

\* C10: on POST /generate/content and /generate/calendar the cost items are
\* named anthropic-sonnet-4.6-tokens-input and -output; on POST /generate,
\* /generate/content and /generate/calendar the model of the reported cost
\* names, the model stored on the record and the model passed to the LLM call
\* are the same.
C10_CostNamesMatchModel ==
  \A r \in Req :
    req[r].endpoint \in {"generate", "content", "calendar"} =>
      \A i \in CallsOf(r, "addCosts") : \A k \in 1..Len(trace[r][i].arg) :
        LET name == trace[r][i].arg[k].costName IN
        /\ Strict(req[r].endpoint) =>
             name \in {"anthropic-sonnet-4.6-tokens-input",
                       "anthropic-sonnet-4.6-tokens-output"}
        /\ ModelOfCostName(name) = result[r].model
        /\ ModelOfCostName(name) = RowOf(r).model

\* ------------------------------------------- request handlers: more claims
\* the request made one of these calls
MadeAny(r, ops) == \E i \in 1..Len(trace[r]) : trace[r][i].op \in ops

\* C14: a generation request that fails schema validation (400), or a POST
\* /generate request whose (appId, type) has no stored prompt (404), makes no
\* call to the key store, the LLM provider or the ledger and inserts no
\* generation record.
C14_ShortCircuit ==
  \A r \in Req :
    /\ resp[r].status \in {400, 404} =>
         /\ ~MadeAny(r, KeyOps \cup {"llm", "insert"} \cup LedgerOps)
         /\ generation[r] = 0 /\ genRun[r] = 0
         /\ pc[r] = "done"
    /\ (pc[r] # "idle" /\ req[r].keyMode = "none") => resp[r].status = 400
    /\ (Succeeded(r, "findPrompt") /\ PromptKey \notin prompts) => resp[r].status = 404
    /\ resp[r].status = 404 => req[r].endpoint = "generate"

C14_Witness ==
  \E r, s \in Req :
    /\ resp[r].status = 400 /\ req[r].endpoint = "content" /\ trace[r] = <<>>
    /\ resp[s].status = 404 /\ OpsOf(s) = <<"findGeneration", "findPrompt">>
    /\ emailGenerations = <<>> /\ contentGenerations = <<>> /\ runs = <<>>

\* C15: with keyMode "byok" the key is fetched only by getByokKey(the caller's
\* organization id, "anthropic") and getAppKey is not called; with keyMode
\* "app" it is fetched only by getAppKey(appId, "anthropic") and getByokKey is
\* not called; on POST /generate, /generate/content and /generate/calendar.
C15_KeyRouting ==
  \A r \in Req :
    req[r].endpoint \in {"generate", "content", "calendar"} =>
      /\ NumCalls(r, "getByokKey") + NumCalls(r, "getAppKey") <= 1
      /\ MadeAny(r, {"llm"}) => MadeAny(r, KeyOps)
      /\ req[r].keyMode = "byok" =>
           /\ ~Made(r, "getAppKey")
           /\ \A i \in CallsOf(r, "getByokKey") :
                trace[r][i].arg = <<req[r].orgId, "anthropic">>
      /\ req[r].keyMode = "app" =>
           /\ ~Made(r, "getByokKey")
           /\ \A i \in CallsOf(r, "getAppKey") :
                trace[r][i].arg = <<"app-1", "anthropic">>
      /\ req[r].keyMode = "none" => ~MadeAny(r, KeyOps)

C15_Witness ==
  \E r, s \in Req :
    /\ req[r].endpoint = "generate" /\ req[r].keyMode = "app" /\ Succeeded(r, "getAppKey")
    /\ req[s].endpoint = "calendar" /\ req[s].keyMode = "byok" /\ req[s].orgId = "org-B"
    /\ Succeeded(s, "getByokKey")

\* messages of the errors key resolution and the LLM invocation raise
KeyErrors == {"anthropic key not configured"}
LlmErrors == {"llm: invocation failed", "llm: reply not parseable"}

\* C16: if key resolution fails or the LLM invocation fails, the request
\* answers HTTP 500 carrying the underlying error message, no generation
\* record is inserted and no ledger run is created for that request.
C16_KeyOrLlmFailure ==
  \A r \in Req :
    (Rejected(r, "getByokKey") \/ Rejected(r, "getAppKey") \/ Rejected(r, "llm")) =>
      /\ pc[r] = "done"
      /\ resp[r].status = 500
      /\ resp[r].error \in (IF Rejected(r, "llm") THEN LlmErrors ELSE KeyErrors)
      /\ ~MadeAny(r, {"insert"} \cup LedgerOps)
      /\ generation[r] = 0 /\ genRun[r] = 0
      /\ trace[r][Len(trace[r])].op \in KeyOps \cup {"llm"}

C16_Witness ==
  \E r, s \in Req :
    /\ Rejected(r, "getByokKey") /\ resp[r].status = 500
    /\ Rejected(s, "llm") /\ resp[s].status = 500 /\ req[s].endpoint = "content"
    /\ resp[s].error = "llm: invocation failed"

\* the provider answered the request with a text of another shape than asked
MalformedReply(r) ==
  \E i \in CallsOf(r, "llm") : trace[r][i].arg[2] = "malformed"

\* C17: on every generation endpoint a provider reply that cannot be parsed
\* into the endpoint's expected shape is fatal: the request answers HTTP 500,
\* nothing is persisted and no cost is reported.
C17_MalformedReplyIsFatal ==
  \A r \in Req :
    MalformedReply(r) =>
      /\ pc[r] = "done" /\ resp[r].status = 500
      /\ ~MadeAny(r, {"insert", "addCosts"})
      /\ generation[r] = 0

\* ------------------------------------------------ ledger client: claims
AllStatuses(P(_)) == \A i \in 1..Len(fetched) : P(fetched[i])
Ended == rpc = "done"

\* C11: a ledger call whose every attempt gets a retryable (5xx) status makes
\* exactly 4 HTTP attempts (1 initial + 3 retries), then fails with an error
\* naming the method, the path and the final status; no call ever makes a
\* fifth attempt.
C11_RetryExhaustion ==
  /\ Len(fetched) <= 4
  /\ (Ended /\ AllStatuses(Retryable)) =>
       /\ Len(fetched) = 4
       /\ outcome.state = "threw"
       /\ outcome.error = <<"runs-service", call.method, call.path, "failed", fetched[4]>>
  /\ (~Ended /\ AllStatuses(Retryable)) => Len(fetched) < 4

C11_Witness ==
  /\ Ended /\ Len(fetched) = 4
  /\ call.op = "updateRun"
  /\ \A i \in 1..4 : fetched[i] = 502
  /\ outcome.error = <<"runs-service", "PATCH", "/v1/runs/run-1", "failed", 502>>

\* C12: a ledger call that receives a non-5xx failure status on an attempt
\* fails at once with an error naming method, path and status, and that
\* attempt is its last; when the first response is 4xx exactly one attempt is
\* made and no retry warning is logged.
C12_NoRetryOn4xx ==
  \A i \in 1..Len(fetched) :
    (~StatusOk(fetched[i]) /\ fetched[i] < 500) =>
      /\ i = Len(fetched)
      /\ Ended
      /\ outcome.state = "threw"
      /\ outcome.error = <<"runs-service", call.method, call.path, "failed", fetched[i]>>
      /\ i = 1 => warned = <<>> /\ slept = <<>>

C12_Witness ==
  /\ call.op = "addCosts"
  /\ fetched = <<400>>
  /\ outcome.state = "threw"
  /\ warned = <<>>

\* C13: a ledger call that gets retryable 5xx responses on attempts 1..k-1
\* and a 2xx response on attempt k (1 <= k <= 4) returns that response's body
\* after exactly k attempts, with the k-1 warnings "Retry n/3", n = 1..k-1,
\* and makes no attempt after the successful one.
C13_RetrySuccess ==
  \A k \in 1..Len(fetched) :
    StatusOk(fetched[k]) =>
      /\ k <= 4
      /\ k = Len(fetched)
      /\ \A i \in 1..(k - 1) : fetched[i] >= 500
      /\ Ended
      /\ outcome.state = "returned" /\ outcome.body = k
      /\ warned = [n \in 1..(k - 1) |-> <<"Retry", n, 3>>]
      /\ Len(slept) = k - 1

C13_Witness ==
  /\ fetched = <<500, 503, 504, 200>>
  /\ outcome.state = "returned" /\ outcome.body = 4
  /\ Len(warned) = 3

RECURSIVE DaysFromStart(_, _)
DaysFromStart(sequence, i) ==
  IF i = 0 THEN 0 ELSE DaysFromStart(sequence, i - 1) + sequence[i].daysSinceLastStep

TextOfValue(value) ==
  CASE value = JString(<<"Alice">>) -> <<"Alice">>
    [] value = JString(<<"$", "$", "5">>) -> <<"$", "$", "5">>
    [] value = JString(<<"$", "&">>) -> <<"$", "&">>
    [] value = JString(<<"{", "{", "b", "}", "}">>) -> <<"{", "{", "b", "}", "}">>
    [] value = JLiteral("number", "42") -> <<"42">>
    [] value = JLiteral("boolean", "true") -> <<"true">>
    [] value = JLiteral("null", "null") -> <<"null">>
    [] value = JArray(<<>>) -> <<>>
    [] value = JArray(<<JString(<<"x">>), JString(<<"y">>)>>) -> <<"x", ",", " ", "y">>
    [] value = JArray(<<JLiteral("number", "1"), JString(<<"two">>),
                        JLiteral("boolean", "true")>>)
         -> <<"[", "1", ",", "\"", "two", "\"", ",", "true", "]">>
    [] value = JObject(<<<<"k">>>>, <<JString(<<"v">>)>>)
         -> <<"{", "\"", "k", "\"", ":", "\"", "v", "\"", "}">>

\* the value a variables map gives a name, if any
HasKey(variables, key) == \E i \in 1..Len(variables) : variables[i].key = key
ValueOf(variables, key) ==
  variables[CHOOSE i \in 1..Len(variables) : variables[i].key = key].value

\* a placeholder of a key of the map starts at position i of the template
KeyAt(template, variables, i) ==
  {k \in KeysOf(variables) : MatchesAt(template, Placeholder(k), i)}

\* the template with every placeholder of a key replaced by the text of the
\* key's value and every other character kept, from position i on
RECURSIVE Substituted(_, _, _)
Substituted(template, variables, i) ==
  IF i > Len(template) THEN <<>>
  ELSE IF KeyAt(template, variables, i) # {}
    THEN LET k == CHOOSE k \in KeyAt(template, variables, i) : TRUE IN
         TextOfValue(ValueOf(variables, k))
         \o Substituted(template, variables, i + Len(Placeholder(k)))
  ELSE <<template[i]>> \o Substituted(template, variables, i + 1)

HasPlaceholder(template) ==
  \E i \in 1..Len(template), k \in Keys : MatchesAt(template, Placeholder(k), i)

\* C19: substituteVariables(template, variables) replaces every occurrence of
\* {{name}}, for every key name of variables, by the coerced value, leaves
\* every placeholder whose name is not a key verbatim and changes no other
\* character of the template; with an empty variables map or a template
\* without placeholders the result equals the template.
C19_SubstituteVariables ==
  fn = "substituteVariables" =>
    LET template == input[1]
        variables == input[2]
    IN
    /\ output = Substituted(template, variables, 1)
    /\ (variables = <<>> \/ ~HasPlaceholder(template)) => output = template

\* C20: coercion of a variable value, for every value: a string is inserted
\* unchanged, character for character; an array whose every element is a
\* string is inserted as its elements joined with ", "; every other value is
\* inserted as its JSON text.  Checked on the text coerceToString returns and
\* on the text substituteVariables puts in the place of the placeholder.
C20_Coercion ==
  /\ fn = "coerceToString" => output = TextOfValue(input[1])
  /\ (fn = "substituteVariables" /\ Len(input[2]) = 1
      /\ input[1] = <<"Hello ">> \o Placeholder(input[2][1].key)) =>
       output = <<"Hello ">> \o TextOfValue(input[2][1].value)

\* ------------------------------------- request handlers: the stored records
\* every row of the table that carries a run id is still there afterwards,
\* with the same run id
KeepsRunIds(before, after) ==
  \A i \in 1..Len(before) :
    before[i].generationRunId # NoRun =>
      /\ i <= Len(after)
      /\ after[i].generationRunId = before[i].generationRunId

\* C21: a generation record's generationRunId, once non-null, is never set
\* back to null and never changed to another run id, by any step of any
\* request, in both tables; a record that carries a run id stays stored.
C21_RunIdNeverCleared ==
  [][KeepsRunIds(emailGenerations, emailGenerations')
       /\ KeepsRunIds(contentGenerations, contentGenerations')]_vars

\* two answered requests, each with its own run id on its own record
C21_Witness ==
  \E r, s \in Req :
    /\ r # s /\ pc[r] = "done" /\ pc[s] = "done"
    /\ req[r].endpoint = "generate" /\ Succeeded(r, "link")
    /\ Succeeded(s, "insert") /\ genRun[s] # NoRun /\ genRun[r] # genRun[s]
    /\ RowOf(r).generationRunId = genRun[r]
    /\ RowOf(s).generationRunId = genRun[s]

\* requests that inserted row i of a table
CreatorsOf(i, bestEffort) ==
  {r \in Req : /\ generation[r] = i /\ Succeeded(r, "insert")
               /\ BestEffort(req[r].endpoint) = bestEffort}

\* the request was answered 200 after generating
Generated200(r) == pc[r] = "done" /\ resp[r].status = 200 /\ ~IdempotentHit(r)

OneRecordPerRequest ==
  /\ \A r \in Req :
       /\ NumCalls(r, "insert") <= 1
       /\ Generated200(r) =>
            /\ NumSucceeded(r, "insert") = 1
            /\ generation[r] # 0
            /\ RowOf(r).id = generation[r]
            /\ resp[r].id = RowOf(r).id
       /\ IdempotentHit(r) => ~Made(r, "insert") /\ generation[r] = 0
       /\ generation[r] # 0 <=> Succeeded(r, "insert")
  /\ \A i \in 1..Len(emailGenerations) :
       /\ emailGenerations[i].id = i
       /\ Cardinality(CreatorsOf(i, TRUE)) = 1
  /\ \A i \in 1..Len(contentGenerations) :
       /\ contentGenerations[i].id = i
       /\ Cardinality(CreatorsOf(i, FALSE)) = 1

\* C22: a generation record is created exactly once per request that is not
\* an idempotent hit: a request answered 200 that was not an idempotent hit
\* has inserted exactly one record, whose id is the id in the response; no
\* request makes more than one insert; an idempotent hit inserts none; and
\* every stored record was inserted by exactly one request.
C22_OneRecordPerRequest == []OneRecordPerRequest

C22_Witness ==
  \E r, s \in Req :
    /\ Generated200(r) /\ req[r].endpoint = "content" /\ resp[r].id = 1
    /\ Generated200(s) /\ req[s].endpoint = "generate" /\ resp[s].id = 1
    /\ req[s].idempotencyKey = "idem-key-1" /\ genRun[s] = 2
    /\ Len(emailGenerations) = 1 /\ Len(contentGenerations) = 1

\* ------------------------------------ request handlers: the order of steps
\* the calls of a request in order, the key-store call named "key", the
\* lookup of the prompt template left out
IsListedStep(op) == op # "findPrompt"
ListedStepsOf(r) ==
  LET steps == SelectSeq(OpsOf(r), IsListedStep) IN
  [i \in 1..Len(steps) |-> StepName(steps[i])]

\* the steps of POST /generate when nothing fails: the idempotency lookup is
\* made when the request carries a key, addCosts when there is a cost item
StepsOfGenerate(r) ==
  (IF Truthy(req[r].idempotencyKey) THEN <<"findGeneration">> ELSE <<>>)
  \o <<"key", "llm", "insert", "createRun", "link">>
  \o ReportStep(r) \o <<"updateRun">>

IsPrefix(s, t) == Len(s) <= Len(t) /\ \A i \in 1..Len(s) : s[i] = t[i]

NoStepFailed(r) == \A i \in 1..Len(trace[r]) : trace[r][i].ok

StepsInOrder ==
  \A r \in Req :
    (req[r].endpoint = "generate" /\ NoStepFailed(r) /\ ~IdempotentHit(r)) =>
      /\ IsPrefix(ListedStepsOf(r), StepsOfGenerate(r))
      /\ resp[r].status = 200 <=>
           (pc[r] = "done" /\ ListedStepsOf(r) = StepsOfGenerate(r))
      /\ Made(r, "updateRun") => pc[r] = "done"
      /\ NumCalls(r, "findPrompt") <= 1
      /\ \A i \in CallsOf(r, "findPrompt") :
           i = (IF Truthy(req[r].idempotencyKey) THEN 2 ELSE 1)

\* C23: for a POST /generate request that is not an idempotent hit and in
\* which no step fails, the steps happen in this order, each after the
\* previous one has completed: idempotency check, key resolution, LLM
\* invocation, insert of the record, createRun, write of the run id onto the
\* record, addCosts, updateRun("completed"), HTTP response.  At every moment
\* the steps made so far are an initial part of that list, the 200 is sent
\* only when the list is complete, and the only other call made is the lookup
\* of the prompt template.
C23_StepOrder == []StepsInOrder

C23_Witness ==
  \E r \in Req :
    /\ req[r].endpoint = "generate" /\ pc[r] = "done" /\ resp[r].status = 200
    /\ NoStepFailed(r)
    /\ OpsOf(r) = <<"findGeneration", "findPrompt", "getByokKey", "llm", "insert",
                     "createRun", "link", "addCosts", "updateRun">>

\* -------------------------------------- request handlers: idempotency keys
\* how often the request called the LLM and inserted, and what it must have
\* done once it is answered: a valid request in which no step failed is
\* answered 404 (no prompt stored) or 200, and a 200 follows one LLM call and
\* one insert
GeneratesOnce(r) ==
  /\ NumCalls(r, "llm") <= 1 /\ NumCalls(r, "insert") <= 1
  /\ (pc[r] = "done" /\ NoStepFailed(r) /\ resp[r].status \notin {400, 404}) =>
       resp[r].status = 200
  /\ (pc[r] = "done" /\ resp[r].status = 200) =>
       /\ NumSucceeded(r, "llm") = 1 /\ NumSucceeded(r, "insert") = 1
       /\ Made(r, "findPrompt")

\* C24: a POST /generate request with an idempotency key that matches no
\* stored record of the caller's organization proceeds to normal generation
\* (the idempotency step answers nothing and hands over to the template
\* lookup) and performs exactly one LLM call and exactly one insert, the
\* inserted record carrying that idempotency key.
C24_MissGenerates ==
  /\ [](\A r \in Req :
          (req[r].endpoint = "generate" /\ req[r].idempotencyKey # Undefined
             /\ ~IdempotentHit(r)) =>
            /\ GeneratesOnce(r)
            /\ generation[r] # 0 =>
                 /\ RowOf(r).idempotencyKey = req[r].idempotencyKey
                 /\ RowOf(r).orgId = req[r].orgId)
  /\ [][\A r \in Req :
          (PassesIdempotencyStep(r) /\ req[r].idempotencyKey # Undefined
             /\ StoredFor(r) = {}) =>
            /\ pc'[r] = "template" /\ resp'[r] = resp[r]
            /\ UNCHANGED <<emailGenerations, contentGenerations, runs>>]_vars

C24_Witness ==
  \E r \in Req :
    /\ req[r].endpoint = "generate" /\ req[r].idempotencyKey = "idem-key-1"
    /\ pc[r] = "done" /\ resp[r].status = 200
    /\ Succeeded(r, "findGeneration") /\ OpsOf(r)[1] = "findGeneration"
    /\ NumCalls(r, "llm") = 1 /\ NumCalls(r, "insert") = 1
    /\ emailGenerations[resp[r].id].idempotencyKey = "idem-key-1"

NoKeyNoLookup ==
  \A r \in Req :
    (req[r].endpoint = "generate" /\ req[r].idempotencyKey = Undefined) =>
      /\ ~Made(r, "findGeneration")
      /\ ~IdempotentHit(r)
      /\ trace[r] # <<>> => OpsOf(r)[1] = "findPrompt"
      /\ GeneratesOnce(r)
      /\ generation[r] # 0 => RowOf(r).idempotencyKey = Null

\* C25: when a POST /generate request omits the idempotency key the
\* idempotency lookup is not performed at all and generation is
\* unconditional: one LLM call and one insert, the record's idempotency key
\* stored as null, whatever records are stored already.
C25_NoKeyNoLookup == []NoKeyNoLookup

\* two requests of one organization without a key, both generating
C25_Witness ==
  \E r, s \in Req :
    /\ r # s /\ req[r] = req[s]
    /\ req[r].endpoint = "generate" /\ req[r].idempotencyKey = Undefined
    /\ resp[r].status = 200 /\ resp[s].status = 200
    /\ generation[r] = 1 /\ generation[s] = 2
    /\ emailGenerations[1].idempotencyKey = Null
    /\ emailGenerations[2].idempotencyKey = Null

\* rows of other organizations carrying the idempotency key of request r
StoredElsewhereFor(r) ==
  {i \in 1..Len(emailGenerations) :
     /\ emailGenerations[i].orgId # req[r].orgId
     /\ emailGenerations[i].idempotencyKey = req[r].idempotencyKey}

\* C26: idempotency keys are scoped per organization: an idempotent hit
\* returns a record whose organization id equals the caller's (and whose key
\* is the request's); a request carrying a key that only records of other
\* organizations carry is not answered from the store and generates normally,
\* inserting a record of its own organization.
C26_KeyScopedPerOrg ==
  /\ [](\A r \in Req :
          /\ IdempotentHit(r) =>
               /\ resp[r].id \in 1..Len(emailGenerations)
               /\ emailGenerations[resp[r].id].orgId = req[r].orgId
               /\ emailGenerations[resp[r].id].idempotencyKey = req[r].idempotencyKey
               /\ resp[r].id \notin StoredElsewhereFor(r)
          /\ (pc[r] = "done" /\ resp[r].status = 200 /\ req[r].endpoint = "generate") =>
               emailGenerations[resp[r].id].orgId = req[r].orgId)
  /\ [][\A r \in Req :
          (PassesIdempotencyStep(r) /\ StoredElsewhereFor(r) # {}
             /\ StoredFor(r) = {}) =>
            /\ pc'[r] = "template" /\ resp'[r].status = 0
            /\ UNCHANGED emailGenerations]_vars

\* org-B repeats a key org-A has used and gets a record of its own
C26_Witness ==
  \E r, s \in Req :
    /\ req[r].endpoint = "generate" /\ req[s].endpoint = "generate"
    /\ req[r].orgId = "org-A" /\ req[s].orgId = "org-B"
    /\ req[r].idempotencyKey = "idem-key-1" /\ req[s].idempotencyKey = "idem-key-1"
    /\ r \in startedAfter[s]
    /\ resp[r].status = 200 /\ resp[r].id = 1
    /\ resp[s].status = 200 /\ resp[s].id = 2
    /\ Succeeded(s, "findGeneration") /\ Succeeded(s, "llm")
    /\ emailGenerations[2].orgId = "org-B"

\* ---------------------------------------------------- PUT /prompts: claims
\* the applied upserts of (appId, type), in order
WritesTo(appId, type) ==
  LET IsOnKey(p) == put[p].appId = appId /\ put[p].type = type IN
  SelectSeq(upserts, IsOnKey)

Applied(p) == \E n \in 1..Len(upserts) : upserts[n] = p

\* what is stored, without ids and times
StoredPrompts(table) ==
  {<<table[i].appId, table[i].type, table[i].prompt>> : i \in 1..Len(table)}

\* request p's write is applied in this step, and the last upsert applied to
\* its (appId, type) before it carried the same prompt text
RepeatsLastUpsert(p) ==
  LET writes == WritesTo(put[p].appId, put[p].type) IN
  /\ ~Applied(p) /\ upserts' = Append(upserts, p)
  /\ writes # <<>>
  /\ put[writes[Len(writes)]].prompt = put[p].prompt

OneRowPerPair ==
  \A i, j \in 1..Len(promptsTable) :
    (promptsTable[i].appId = promptsTable[j].appId
       /\ promptsTable[i].type = promptsTable[j].type) => i = j

RowHoldsLastUpsert ==
  \A key \in PromptKeys :
    LET writes == WritesTo(key[1], key[2])
        rows == PromptMatches(key[1], key[2])
    IN
    /\ writes = <<>> <=> rows = {}
    /\ \A i \in rows : promptsTable[i].prompt = put[writes[Len(writes)]].prompt

AnsweredIffApplied ==
  \A p \in PutReq :
    /\ put[p].status = 200 <=> Applied(p)
    /\ put[p].status = 200 => PromptMatches(put[p].appId, put[p].type) = {put[p].id}

\* C27: PUT /prompts is an idempotent upsert keyed by (appId, type): after
\* any interleaving of upserts there is at most one row per (appId, type); a
\* pair has a row exactly when an upsert of it was applied, and the row holds
\* the prompt text of the upsert applied last; a request is answered 200
\* exactly when its write was applied, with the id of the pair's row; and
\* applying an upsert that repeats the last one leaves the stored
\* (appId, type, prompt) triples as they were.
C27_IdempotentUpsert ==
  /\ []OneRowPerPair
  /\ []RowHoldsLastUpsert
  /\ []AnsweredIffApplied
  /\ [][\A p \in PutReq :
          RepeatsLastUpsert(p) =>
            StoredPrompts(promptsTable') = StoredPrompts(promptsTable)]_upsertVars

\* an upsert applied twice, and a concurrent upsert of the same pair whose
\* insert the unique index rejected
C27_Witness ==
  \E p, q, o \in PutReq :
    /\ upserts = <<p, q>>
    /\ put[p].existing = 0 /\ put[q].existing = 1
    /\ put[p].appId = put[q].appId /\ put[p].type = put[q].type
    /\ put[p].prompt = put[q].prompt
    /\ put[o].appId = put[p].appId /\ put[o].type = put[p].type
    /\ put[o].prompt # put[p].prompt
    /\ put[o].status = 500 /\ put[o].existing = 0
    /\ put[o].error = "duplicate key value violates unique constraint"
    /\ StoredPrompts(promptsTable) = {<<put[p].appId, put[p].type, put[p].prompt>>}

\* ----------------------------- request handlers: writes to stored records
\* the request that takes the step
Acts(r) == pc'[r] # pc[r]

\* C28: the link-back update of a request writes only the record that this
\* request inserted: a step that changes a stored record of email_generations
\* is the link step of the request that inserted that record, and no step
\* changes a stored record of content_generations.
C28_LinkOwnRecordOnly ==
  [][/\ Len(emailGenerations') >= Len(emailGenerations)
     /\ \A i \in 1..Len(emailGenerations) :
          emailGenerations'[i] # emailGenerations[i] =>
            \E r \in CreatorsOf(i, TRUE) :
              /\ Acts(r) /\ pc[r] = "link"
              /\ \A s \in Req \ {r} : ~Acts(s)
     /\ Len(contentGenerations') >= Len(contentGenerations)
     /\ \A i \in 1..Len(contentGenerations) :
          contentGenerations'[i] = contentGenerations[i]]_vars

\* one request has linked its record while the other, of the same
\* organization, has inserted its record and not linked it yet
C28_Witness ==
  \E r, s \in Req :
    /\ r # s /\ req[r].orgId = req[s].orgId
    /\ Succeeded(r, "link") /\ RowOf(r).generationRunId = genRun[r]
    /\ pc[s] = "link" /\ generation[s] # 0 /\ generation[s] # generation[r]
    /\ genRun[s] # NoRun /\ genRun[s] # genRun[r]
    /\ RowOf(s).generationRunId = NoRun

\* the row without its run id
WithoutRunId(row) == [row EXCEPT !.generationRunId = NoRun]

\* C29: after the initial insert generationRunId is the only field of a
\* generation record the pipeline changes: id, organization, idempotency
\* key, subject, sequence, model and token counts of a stored record are the
\* same after every step, and no record is removed.
C29_OnlyRunIdChanges ==
  [][/\ Len(emailGenerations') >= Len(emailGenerations)
     /\ \A i \in 1..Len(emailGenerations) :
          WithoutRunId(emailGenerations'[i]) = WithoutRunId(emailGenerations[i])
     /\ Len(contentGenerations') >= Len(contentGenerations)
     /\ \A i \in 1..Len(contentGenerations) :
          WithoutRunId(contentGenerations'[i]) = WithoutRunId(contentGenerations[i])]_vars

\* a record that was linked after its insert is the record inserted, but
\* for the run id
C29_Witness ==
  \E r \in Req :
    /\ req[r].endpoint = "generate" /\ req[r].idempotencyKey = "idem-key-1"
    /\ Succeeded(r, "link") /\ pc[r] = "done"
    /\ RowOf(r).generationRunId # NoRun
    /\ RowOf(r).subject = "Subject B" /\ RowOf(r).tokensInput = MaxTokens
    /\ RowOf(r) = [EmailRow(r, generation[r]) EXCEPT !.generationRunId = genRun[r]]

\* ---------------------------------- request handlers: completing the run
\* call i of request r comes after a resolved call of op on the run of r
AfterOk(r, i, op) ==
  \E j \in 1..(i - 1) : trace[r][j].op = op /\ trace[r][j].ok

CompleteAfterCosts ==
  /\ \A r \in Req : \A i \in CallsOf(r, "updateRun") :
       /\ trace[r][i].arg = <<"completed">>
       /\ trace[r][i].runId = genRun[r] /\ genRun[r] # NoRun
       /\ AfterOk(r, i, "createRun")
       /\ AfterOk(r, i, IF BestEffort(req[r].endpoint) THEN "link" ELSE "insert")
       /\ RowOf(r).generationRunId = genRun[r]
       /\ HasCostItem(r) =>
            \E j \in 1..(i - 1) :
              /\ trace[r][j].op = "addCosts" /\ trace[r][j].ok
              /\ trace[r][j].runId = genRun[r]
  /\ \A r \in Req :
       Rejected(r, "addCosts") =>
         /\ ~Made(r, "updateRun")
         /\ pc[r] = "done"
         /\ resp[r].status = (IF Strict(req[r].endpoint) THEN 500 ELSE 200)
         /\ runs[genRun[r]].status = "running"
  /\ \A k \in 1..Len(runs) :
       /\ runs[k].status \in {"running", "completed"}
       /\ runs[k].status = "completed" =>
            \E r \in Req : genRun[r] = k /\ Succeeded(r, "updateRun")

\* C30: updateRun(runId, "completed") is called for a run only after createRun
\* returned that run id, the run id was written on the record and addCosts
\* succeeded (or there was no cost item); when addCosts fails the run is never
\* marked completed, under the best-effort policy (answer 200) as well as
\* under the strict one (answer 500), and no status other than "completed" is
\* ever written for a run.
C30_CompleteAfterCosts == []CompleteAfterCosts

C30_Witness ==
  \E r, s \in Req :
    /\ req[r].endpoint = "generate" /\ Rejected(r, "addCosts")
    /\ resp[r].status = 200 /\ runs[genRun[r]].status = "running"
    /\ req[s].endpoint = "content" /\ Succeeded(s, "addCosts")
    /\ Succeeded(s, "updateRun") /\ runs[genRun[s]].status = "completed"
    /\ genRun[r] = 1 /\ genRun[s] = 2

\* ------------------------------- request handlers: no retry in the handler
\* the last call request r made
LastCall(r) == trace[r][Len(trace[r])]

CallsAtMostOnce ==
  \A r \in Req :
    /\ NumCalls(r, "getByokKey") + NumCalls(r, "getAppKey") <= 1
    /\ NumCalls(r, "llm") <= 1
    /\ \A i \in 1..Len(trace[r]) :
         (trace[r][i].op \in KeyOps \cup {"llm"} /\ ~trace[r][i].ok) =>
           /\ i = Len(trace[r])
           /\ pc[r] = "done" /\ resp[r].status = 500
    /\ Made(r, "llm") =>
         /\ NumSucceeded(r, "getByokKey") + NumSucceeded(r, "getAppKey") = 1
         /\ \A i \in CallsOf(r, "llm") : \E j \in 1..(i - 1) : trace[r][j].op \in KeyOps

LedgerFailedAfterInsert(r) ==
  /\ req[r].endpoint = "generate" /\ req[r].idempotencyKey # Undefined
  /\ pc[r] = "done" /\ Succeeded(r, "insert") /\ LedgerStepRejected(r)

\* s arrived after r was answered, with the organization and the key of r
LaterWithSameKey(r, s) ==
  /\ r # s /\ r \in startedAfter[s]
  /\ req[s].endpoint = "generate"
  /\ req[s].orgId = req[r].orgId
  /\ req[s].idempotencyKey = req[r].idempotencyKey

\* s is answered from the row of r after its lookup, and calls nothing else
HitOn(r, s) ==
  /\ \A i \in 1..Len(trace[s]) : trace[s][i].op = "findGeneration"
  /\ pc[s] \in {"idempotency", "done"}
  /\ (pc[s] = "done" /\ Succeeded(s, "findGeneration")) =>
       /\ resp[s] = BodyOfRow(RowOf(r))
       /\ resp[s] = resp[r]
  /\ (pc[s] = "done" /\ Rejected(s, "findGeneration")) => resp[s].status = 500

\* what the ledger steps of r left behind is what stays: the run id on the
\* row if the link was made, the cost items on the run if they were added
LedgerLeftAsIs(r) ==
  /\ RowOf(r).generationRunId = (IF Succeeded(r, "link") THEN genRun[r] ELSE NoRun)
  /\ genRun[r] # NoRun =>
       /\ runs[genRun[r]].costs =
            (IF Succeeded(r, "addCosts")
               THEN CostItems(GenerateCostNames, result[r].tokensInput, result[r].tokensOutput)
               ELSE <<>>)
       /\ runs[genRun[r]].status = "running"

NoRetryOfLedger_AnyKey ==
  \A r, s \in Req :
    LedgerFailedAfterInsert(r) =>
      /\ LedgerLeftAsIs(r)
      /\ LaterWithSameKey(r, s) => HitOn(r, s)

NoRetryOfLedger ==
  \A r, s \in Req :
    LedgerFailedAfterInsert(r) =>
      /\ LedgerLeftAsIs(r)
      /\ (LaterWithSameKey(r, s) /\ req[r].idempotencyKey # "") => HitOn(r, s)

StrictLedgerFailure(r) ==
  /\ Strict(req[r].endpoint)
  /\ Rejected(r, "addCosts") \/ Rejected(r, "updateRun")

\* the row r inserted is stored as it was inserted
RowKept(r) ==
  /\ generation[r] \in 1..Len(contentGenerations)
  /\ contentGenerations[generation[r]] = ContentRow(r, generation[r])
  /\ contentGenerations[generation[r]].subject = result[r].subject
  /\ contentGenerations[generation[r]].generationRunId = genRun[r]
  /\ genRun[r] \in 1..Len(runs)

\* no step removes or rewrites a row of content_generations
ContentRowsStay ==
  /\ Len(contentGenerations') >= Len(contentGenerations)
  /\ \A i \in 1..Len(contentGenerations) :
       i <= Len(contentGenerations') => contentGenerations'[i] = contentGenerations[i]

\* C33: on POST /generate/content and POST /generate/calendar, when addCosts
\* or updateRun fails the response is HTTP 500 and the row the request
\* inserted into content_generations is not rolled back: it stays stored
\* with the generated content and with generationRunId equal to the id
\* createRun returned.
C33_NoRollback ==
  /\ [](\A r \in Req :
          StrictLedgerFailure(r) =>
            (pc[r] = "done" /\ resp[r].status = 500 /\ RowKept(r)))
  /\ [][ContentRowsStay]_vars

C33_Witness ==
  \E r, s \in Req :
    /\ req[r].endpoint = "content" /\ Rejected(r, "addCosts")
    /\ req[s].endpoint = "calendar" /\ Rejected(s, "updateRun")
    /\ resp[r].status = 500 /\ resp[s].status = 500
    /\ RowKept(r) /\ RowKept(s) /\ Len(contentGenerations) = 2
    /\ contentGenerations[generation[s]].subject = "Subject B"
    /\ contentGenerations[generation[s]].generationRunId = genRun[s]

\* ------------------------------------ template substitution: entry order
\* the two maps hold the same entries, in whatever order
SameEntries(variables, other) ==
  /\ Len(other) = Len(variables)
  /\ {other[i] : i \in 1..Len(other)} = {variables[i] : i \in 1..Len(variables)}

\* the value's text is the placeholder of another key of the map
NamesOtherKey(variables, i) ==
  \E j \in 1..Len(variables) :
    j # i /\ CoerceToString(variables[i].value) = Placeholder(variables[j].key)

\* no value of the map holds a dollar sign
NoDollar(variables) ==
  \A i \in 1..Len(variables) :
    LET text == CoerceToString(variables[i].value) IN
    \A j \in 1..Len(text) : text[j] # "$"

\* C34: the result of substituteVariables does not depend on the order of the
\* entries of the variables map, and an inserted value is not itself scanned
\* for placeholders: a value that is the text {{other}} of another key of the
\* map stands verbatim in the result, the template's own placeholders alone
\* being replaced.
C34_OrderIndependent ==
  fn = "substituteVariables" =>
    LET template == input[1]
        variables == input[2]
    IN
    /\ \A other \in VariableMaps :
         SameEntries(variables, other) => SubstituteVariables(template, other) = output
    /\ ((\E i \in 1..Len(variables) : NamesOtherKey(variables, i)) /\ NoDollar(variables)) =>
         output = Substituted(template, variables, 1)

\* ------------------------------------ request handlers: the response
\* the handler of r has returned
Returned(r) == pc[r] = "done"
Answered(r) == resp[r].status # 0

\* a handler returns having sent a response, and sends none before
AnsweredWhenReturned ==
  \A r \in Req :
    /\ Returned(r) <=> Answered(r)
    /\ Answered(r) => resp[r].status \in {200, 400, 404, 500}

\* a response once sent is the only one: no step sends another, and the
\* handler that sent it takes no further step
AnswersOnce ==
  \A r \in Req :
    Answered(r) => (resp'[r] = resp[r] /\ pc'[r] = pc[r] /\ trace'[r] = trace[r])

\* C35: provided every call to the store, the key store, the LLM provider and
\* the ledger returns or fails, every generation request that arrived is
\* eventually answered, with exactly one HTTP response of status 200, 400,
\* 404 or 500, on every path: no path answers twice and none leaves the
\* request unanswered.
C35_ExactlyOneResponse ==
  /\ []AnsweredWhenReturned
  /\ [][AnswersOnce]_vars
  /\ \A r \in Req : (pc[r] # "idle") ~> Answered(r)

C35_Witness ==
  \E r, s \in Req :
    /\ Rejected(r, "link") /\ resp[r].status = 200
    /\ req[r].idempotencyKey = "idem-key-1"
    /\ IdempotentHit(s) /\ r \in startedAfter[s] /\ resp[s] = resp[r]

====
